---- MODULE Spec2Model ----
(***************************************************************************)
(* Model of the agent orchestration core of agent-framework:               *)
(*   src/src/core/memory.py    ConversationMemory                           *)
(*   src/src/core/router.py    QueryRouter                                  *)
(*   src/src/core/agent.py     Agent.run and its two pipelines              *)
(*   src/src/tools/registry.py ToolRegistry                                 *)
(*                                                                         *)
(* Texts (message contents, model replies, tool output) are tuples of      *)
(* string pieces, so that an f-string is the concatenation of its pieces.  *)
(* Two specifications are given:                                           *)
(*   MemSpec  any sequence of calls of the ConversationMemory API          *)
(*   Spec     turns of Agent.run, one at a time, over one Agent            *)
(***************************************************************************)
EXTENDS Integers, Sequences, FiniteSets, TLC

VARIABLES
    messages,          \* ConversationMemory.messages
    tool_results,      \* ConversationMemory.tool_results
    router_decisions,  \* ConversationMemory.router_decisions
    max_turns,         \* ConversationMemory.max_turns
    clock,             \* the wall clock read by datetime.datetime.now()
    appended,          \* history: every entry ever appended to messages
    lastOp,            \* history: the last memory call, its arguments, the logs before it
    nops,              \* history: number of steps (calls, returns) taken so far
    registry,          \* ToolRegistry._tools (the registered names)
    tools_info,        \* QueryRouter.tools_info (names seen at construction)
    pc,                \* position of the running turn of Agent.run
    user_input,        \* Agent.run's argument
    response,          \* should_use_tools: reply of the routing model call
    decision,          \* (use_tool, suggested_tool) returned by should_use_tools
    tool_response,     \* _process_with_tools: reply of the dispatch model call
    tool_name,         \* _process_with_tools: action["tool"]
    tool_result,       \* _process_with_tools: tool_result
    pending,           \* the tool whose execute call is outstanding, and why
    request,           \* the last model call: its kind and the messages sent
    returned,          \* what the last finished turn returned or raised
    turnPre,           \* history: the three logs as they were when the turn began
    calls,             \* history: model calls issued in this turn, in order
    execs,             \* history: tool execute calls issued in this turn, in order
    phases,            \* history: pipeline states entered in this turn, in order
    turns,             \* history: number of turns started
    fresh,             \* history: a memory built anew at the last clear(), given the same calls
    got,               \* the last get_recent_* call: its limit and what it returned
    gen,               \* the last LLMProvider.generate call: its arguments and the messages sent
    heap,              \* the message dicts alive, by address
    messages_list,     \* self.messages as a list of addresses of dicts
    history_list,      \* the list a caller got from get_conversation_history
    internal_view,     \* history: the internal log when the caller got its list
    parsed,            \* the last OutputParser.parse_json call: its text and what it returned
    _tools,            \* ToolRegistry._tools: (name, implementation) pairs in insertion order
    registered,        \* history: the register calls made, (name given, implementation), in order
    looked,            \* the last get_tool / list_tools call, what it returned, after how many registrations
    _agents,           \* AgentManager._agents: the session ids with an agent in memory
    history_file,      \* the session's <session_id>_history.json: <<>> when absent, else <<its content>>
    mgr_last,          \* history: the last AgentManager step and the state it started from
    qr_call,           \* the last QRCodeTool.execute call: its size argument and its result
    agent_of,          \* AgentManager._agents over several sessions: session id -> address of its Agent
    agent_objs,        \* the Agent objects built so far, by address
    memory_objs,       \* the ConversationMemory objects built so far, by address
    cache_dir,         \* the files of .agent_cache: path -> content
    sess_last          \* history: the last AgentManager or Agent step, its session, what it returned, the model calls it made, the state it started from

memVars   == <<messages, tool_results, router_decisions, max_turns, clock>>
memHist   == <<appended, lastOp, nops>>
regVars   == <<registry, tools_info>>
turnVars  == <<pc, user_input, response, decision, tool_response, tool_name, tool_result,
               pending, request, returned>>
turnHist  == <<turnPre, calls, execs, phases, turns>>
copyVars  == <<heap, messages_list, history_list, internal_view>>
pureVars  == <<got, gen, copyVars>>
regState  == <<_tools, registered, looked>>
mgrState  == <<_agents, history_file, mgr_last>>
toolState == <<qr_call>>
sessState == <<agent_of, agent_objs, memory_objs, cache_dir, sess_last>>
extVars   == <<parsed, regState, mgrState, toolState, sessState>>
vars      == <<memVars, memHist, regVars, turnVars, turnHist, fresh, pureVars, extVars>>

(***************************************************************************)
(* Bounds of the model.                                                    *)
(*   MaxK      largest max_turns a memory is constructed with (MemSpec:    *)
(*             any of 0..MaxK; Spec: the Agent's memory_turns is MaxK)     *)
(*   MaxOps    number of memory calls MemSpec makes                        *)
(*   MaxClock  number of times the clock is seen to advance                *)
(*   MaxSteps  a turn of Agent.run may start while fewer than MaxSteps     *)
(*             steps were taken; a started turn always runs to its end     *)
(*   MaxLimit  largest limit a get_recent_* call is made with              *)
(*   MaxHistory  longest history LLMProvider.generate is called with       *)
(*   MaxCopyOps  number of calls CopySpec makes                            *)
(***************************************************************************)
MaxK == 1
MaxOps == 5
MaxClock == 1
MaxSteps == 6
MaxLimit == 3
MaxHistory == 2
MaxCopyOps == 4

None == "<None>"            \* Python's None where a name is expected
NoneT == <<"<None>">>       \* Python's None where a text is expected
NoText == <<>>              \* the empty string ""

(* An optional list argument: <<>> for None, <<list>> for a list.           *)
NoHistory == <<>>
History(list) == <<list>>

(***************************************************************************)
(* Python list slicing  log[-n:]  (memory.py lines 48, 63, 84).            *)
(* For n = 0 the slice log[-0:] is log[0:], the whole list.                *)
(***************************************************************************)
PySliceLast(log, n) ==
    IF n = 0 THEN log
    ELSE IF n > 0
         THEN IF n >= Len(log) THEN log
              ELSE SubSeq(log, Len(log) - n + 1, Len(log))
         ELSE SubSeq(log, (-n) + 1, Len(log))

Entry(role, content) == [role |-> role, content |-> content]

\* a trim that keeps the oldest entries and drops the newest
trim_if_needed_KeepsOldest(ms, k) ==
    IF Len(ms) > k * 2 THEN SubSeq(ms, 1, k * 2) ELSE ms

\* ConversationMemory._trim_if_needed
trim_if_needed(ms, k) ==
    IF Len(ms) > k * 2 THEN PySliceLast(ms, k * 2) ELSE ms

\* a duplicate test that forgets the role of the last entry
UserIsDuplicate_AnyRole(ms, message) ==
    /\ Len(ms) > 0
    /\ ms[Len(ms)].content = message

\* the duplicate test of add_user_message
UserIsDuplicate(ms, message) ==
    /\ Len(ms) > 0
    /\ ms[Len(ms)].role = "user"
    /\ ms[Len(ms)].content = message

\* ConversationMemory.add_user_message
add_user_message(ms, k, message) ==
    IF UserIsDuplicate(ms, message)
    THEN ms
    ELSE trim_if_needed(Append(ms, Entry("user", message)), k)

\* a duplicate test without the length guard
AssistantIsDuplicate_NoLength(ms, message) ==
    /\ Len(ms) >= 1
    /\ ms[Len(ms)].role = "assistant"
    /\ ms[Len(ms)].content = message

\* the duplicate test of add_assistant_message
AssistantIsDuplicate(ms, message) ==
    /\ Len(ms) >= 2
    /\ ms[Len(ms)].role = "assistant"
    /\ ms[Len(ms)].content = message

\* ConversationMemory.add_assistant_message
add_assistant_message(ms, k, message) ==
    IF AssistantIsDuplicate(ms, message)
    THEN ms
    ELSE trim_if_needed(Append(ms, Entry("assistant", message)), k)

\* add_tool_result, were it to skip a result equal to the last one recorded
add_tool_result_Dedup(trs, k, name, result, ts) ==
    IF trs # <<>> /\ trs[Len(trs)].tool = name /\ trs[Len(trs)].result = result
    THEN trs
    ELSE LET log == Append(trs, [tool |-> name, result |-> result, timestamp |-> ts])
         IN  IF Len(log) > k * 2 THEN PySliceLast(log, k * 2) ELSE log

\* ConversationMemory.add_tool_result
add_tool_result(trs, k, name, result, ts) ==
    LET log == Append(trs, [tool |-> name, result |-> result, timestamp |-> ts])
    IN  IF Len(log) > k * 2 THEN PySliceLast(log, k * 2) ELSE log

\* ConversationMemory.add_router_decision
add_router_decision(rds, k, use_tool, name, reasoning, ts) ==
    LET log == Append(rds, [use_tool |-> use_tool, tool_name |-> name,
                            reasoning |-> reasoning, timestamp |-> ts])
    IN  IF Len(log) > k * 2 THEN PySliceLast(log, k * 2) ELSE log

\* clear(), were it to forget one of the logs
clear_KeepsToolResults(ms, trs, rds) ==
    [messages |-> <<>>, tool_results |-> trs, router_decisions |-> <<>>]

\* ConversationMemory.clear (lines 76-79): the three logs after the call
clear(ms, trs, rds) ==
    [messages |-> <<>>, tool_results |-> <<>>, router_decisions |-> <<>>]

\* ConversationMemory.get_recent_tool_results (lines 68-70)
get_recent_tool_results(trs, limit) ==
    IF trs # <<>> THEN PySliceLast(trs, limit) ELSE <<>>

\* ConversationMemory.get_recent_router_decisions (lines 72-74)
get_recent_router_decisions(rds, limit) ==
    IF rds # <<>> THEN PySliceLast(rds, limit) ELSE <<>>

\* what a call of add_user_message / add_assistant_message really appended
Appended(ms, role, message) ==
    IF role = "user"
    THEN IF UserIsDuplicate(ms, message) THEN <<>> ELSE <<Entry("user", message)>>
    ELSE IF AssistantIsDuplicate(ms, message) THEN <<>>
         ELSE <<Entry("assistant", message)>>

\* datetime.datetime.now(): the clock has not moved since the last read, or it has
Now == {t \in {clock, clock + 1} : t <= MaxClock}

(***************************************************************************)
(* MemSpec: the ConversationMemory API called in any order.                *)
(***************************************************************************)
MemTexts == {<<"a">>, <<"b">>}
MemTools == {"TimestampTool", "NewsTool"}

IdleTurn ==
    /\ pc = "idle"
    /\ user_input = NoneT
    /\ response = [form |-> "none", obj |-> <<>>]
    /\ decision = <<FALSE, None>>
    /\ tool_response = NoneT
    /\ tool_name = None
    /\ tool_result = NoneT
    /\ pending = [tool |-> None, via |-> None]
    /\ request = [call |-> None, sent |-> <<>>]
    /\ returned = [kind |-> "none", value |-> NoneT]
    /\ calls = <<>>
    /\ execs = <<>>
    /\ phases = <<>>
    /\ turns = 0

\* no getter, no generate call and no get_conversation_history call made yet
NoParse == [text |-> <<>>, called |-> FALSE, out |-> <<>>,
            tool |-> <<>>, params |-> <<>>, style |-> "none", wrap |-> "none"]
NoGot == [op |-> None, limit |-> 0, value |-> <<>>]
NoGen == [prompt |-> NoneT, system_message |-> NoneT,
          conversation_history |-> NoHistory, sent |-> <<>>]
NoQrCall == [called |-> FALSE, size |-> [kind |-> "absent", n |-> 0, text |-> <<>>],
             out |-> [kind |-> "none", size |-> 0]]
NoSessStep == [op |-> "none", session |-> "", returned |-> 0, calls |-> <<>>,
               pre |-> [agent_of |-> <<>>, agent_objs |-> <<>>, memory_objs |-> <<>>,
                        cache_dir |-> <<>>]]
NoMgrStep == [op |-> "none", prev |-> "none", prev2 |-> "none", loaded |-> FALSE,
              file |-> <<>>, saved |-> <<>>,
              pre |-> [messages |-> <<>>, tool_results |-> <<>>, router_decisions |-> <<>>]]
NoLook == [op |-> "none", name |-> "", out |-> <<>>, at |-> 0]

PureIdle ==
    /\ got = NoGot
    /\ gen = NoGen
    /\ heap = <<>>
    /\ messages_list = <<>>
    /\ history_list = <<>>
    /\ internal_view = <<>>
    /\ parsed = NoParse
    /\ _tools = <<>>
    /\ registered = <<>>
    /\ looked = NoLook
    /\ _agents = {}
    /\ history_file = <<>>
    /\ mgr_last = NoMgrStep
    /\ qr_call = NoQrCall
    /\ agent_of = <<>>
    /\ agent_objs = <<>>
    /\ memory_objs = <<>>
    /\ cache_dir = <<>>
    /\ sess_last = NoSessStep

\* ConversationMemory.__init__
MemoryInit ==
    /\ messages = <<>>
    /\ tool_results = <<>>
    /\ router_decisions = <<>>
    /\ max_turns \in 0..MaxK
    /\ clock = 0
    /\ appended = <<>>
    /\ lastOp = [op |-> "init", text |-> NoText, name |-> None,
                 pre |-> <<>>, preT |-> <<>>, preR |-> <<>>]
    /\ nops = 0
    /\ fresh = [messages |-> <<>>, tool_results |-> <<>>, router_decisions |-> <<>>,
                max_turns |-> max_turns, cleared |-> FALSE]
    /\ turnPre = [messages |-> <<>>, tool_results |-> <<>>, router_decisions |-> <<>>]

MemInit ==
    /\ MemoryInit
    /\ registry = {}
    /\ tools_info = {}
    /\ IdleTurn
    /\ PureIdle

MemAddUserMessage(message) ==
    /\ nops < MaxOps
    /\ messages' = add_user_message(messages, max_turns, message)
    /\ fresh' = [fresh EXCEPT !.messages = add_user_message(@, fresh.max_turns, message)]
    /\ appended' = appended \o Appended(messages, "user", message)
    /\ lastOp' = [op |-> "add_user_message", text |-> message, name |-> None,
                  pre |-> messages, preT |-> tool_results, preR |-> router_decisions]
    /\ nops' = nops + 1
    /\ UNCHANGED <<tool_results, router_decisions, max_turns, clock>>
    /\ got' = NoGot
    /\ UNCHANGED <<regVars, extVars, turnVars, turnHist, gen, copyVars>>

MemAddAssistantMessage(message) ==
    /\ nops < MaxOps
    /\ messages' = add_assistant_message(messages, max_turns, message)
    /\ fresh' = [fresh EXCEPT
                    !.messages = add_assistant_message(@, fresh.max_turns, message)]
    /\ appended' = appended \o Appended(messages, "assistant", message)
    /\ lastOp' = [op |-> "add_assistant_message", text |-> message, name |-> None,
                  pre |-> messages, preT |-> tool_results, preR |-> router_decisions]
    /\ nops' = nops + 1
    /\ UNCHANGED <<tool_results, router_decisions, max_turns, clock>>
    /\ got' = NoGot
    /\ UNCHANGED <<regVars, extVars, turnVars, turnHist, gen, copyVars>>

MemAddToolResult(name, result) ==
    /\ nops < MaxOps
    /\ \E ts \in Now :
          /\ tool_results' = add_tool_result(tool_results, max_turns, name, result, ts)
          /\ fresh' = [fresh EXCEPT !.tool_results =
                          add_tool_result(@, fresh.max_turns, name, result, ts)]
          /\ clock' = ts
    /\ lastOp' = [op |-> "add_tool_result", text |-> result, name |-> name,
                  pre |-> messages, preT |-> tool_results, preR |-> router_decisions]
    /\ nops' = nops + 1
    /\ UNCHANGED <<messages, router_decisions, max_turns, appended>>
    /\ got' = NoGot
    /\ UNCHANGED <<regVars, extVars, turnVars, turnHist, gen, copyVars>>

MemAddRouterDecision(use_tool, name) ==
    /\ nops < MaxOps
    /\ \E ts \in Now :
          /\ router_decisions' = add_router_decision(router_decisions, max_turns,
                                                     use_tool, name, <<"why">>, ts)
          /\ fresh' = [fresh EXCEPT !.router_decisions =
                          add_router_decision(@, fresh.max_turns, use_tool, name,
                                              <<"why">>, ts)]
          /\ clock' = ts
    /\ lastOp' = [op |-> "add_router_decision", text |-> NoText, name |-> name,
                  pre |-> messages, preT |-> tool_results, preR |-> router_decisions]
    /\ nops' = nops + 1
    /\ UNCHANGED <<messages, tool_results, max_turns, appended>>
    /\ got' = NoGot
    /\ UNCHANGED <<regVars, extVars, turnVars, turnHist, gen, copyVars>>

\* ConversationMemory.clear; the memory built anew starts again, empty
MemClear ==
    /\ nops < MaxOps
    /\ LET after == clear(messages, tool_results, router_decisions)
       IN  /\ messages' = after.messages
           /\ tool_results' = after.tool_results
           /\ router_decisions' = after.router_decisions
    /\ fresh' = [messages |-> <<>>, tool_results |-> <<>>, router_decisions |-> <<>>,
                 max_turns |-> fresh.max_turns, cleared |-> TRUE]
    /\ lastOp' = [op |-> "clear", text |-> NoText, name |-> None,
                  pre |-> messages, preT |-> tool_results, preR |-> router_decisions]
    /\ nops' = nops + 1
    /\ got' = NoGot
    /\ UNCHANGED <<max_turns, clock, appended>>
    /\ UNCHANGED <<regVars, extVars, turnVars, turnHist, gen, copyVars>>

MemNext ==
    \/ \E message \in MemTexts : MemAddUserMessage(message)
    \/ \E message \in MemTexts : MemAddAssistantMessage(message)
    \/ \E name \in MemTools : MemAddToolResult(name, <<"r">>)
    \/ \E name \in MemTools : MemAddRouterDecision(TRUE, name)
    \/ MemClear

MemSpec == MemInit /\ [][MemNext]_vars

(***************************************************************************)
(* GetSpec: the two auxiliary logs are filled and read with any limit.     *)
(***************************************************************************)
Limits == 0..MaxLimit

\* a call of get_recent_tool_results(limit)
MemGetRecentToolResults(limit) ==
    /\ got' = [op |-> "get_recent_tool_results", limit |-> limit,
               value |-> get_recent_tool_results(tool_results, limit)]
    /\ UNCHANGED <<memVars, memHist, regVars, extVars, turnVars, turnHist, fresh, gen, copyVars>>

\* a call of get_recent_router_decisions(limit)
MemGetRecentRouterDecisions(limit) ==
    /\ got' = [op |-> "get_recent_router_decisions", limit |-> limit,
               value |-> get_recent_router_decisions(router_decisions, limit)]
    /\ UNCHANGED <<memVars, memHist, regVars, extVars, turnVars, turnHist, fresh, gen, copyVars>>

GetNext ==
    \/ \E name \in MemTools : MemAddToolResult(name, <<"r">>)
    \/ \E name \in MemTools : MemAddRouterDecision(TRUE, name)
    \/ \E limit \in Limits : MemGetRecentToolResults(limit)
    \/ \E limit \in Limits : MemGetRecentRouterDecisions(limit)

GetSpec == MemInit /\ [][GetNext]_vars

(***************************************************************************)
(* CopySpec: get_conversation_history and what its caller does with the    *)
(* list it gets.  Here the entries of messages are dicts on a heap and a    *)
(* list holds their addresses, so that two lists can share an entry.        *)
(***************************************************************************)
\* the entries a list of addresses stands for
Deref(h, list) == [i \in 1..Len(list) |-> h[list[i]]]

\* list.copy() (memory.py line 66): a new list holding the same addresses
list_copy(list) == list

\* add_user_message on the list of addresses
CopyAddUserMessage(message) ==
    /\ nops < MaxCopyOps
    /\ IF UserIsDuplicate(Deref(heap, messages_list), message)
       THEN UNCHANGED <<heap, messages_list>>
       ELSE /\ heap' = Append(heap, Entry("user", message))
            /\ messages_list' = trim_if_needed(Append(messages_list, Len(heap) + 1),
                                               max_turns)
    /\ internal_view' = Deref(heap', messages_list')
    /\ nops' = nops + 1
    /\ UNCHANGED <<history_list, got, gen, fresh>>
    /\ UNCHANGED <<memVars, appended, lastOp, regVars, extVars, turnVars, turnHist>>

\* add_assistant_message on the list of addresses
CopyAddAssistantMessage(message) ==
    /\ nops < MaxCopyOps
    /\ IF AssistantIsDuplicate(Deref(heap, messages_list), message)
       THEN UNCHANGED <<heap, messages_list>>
       ELSE /\ heap' = Append(heap, Entry("assistant", message))
            /\ messages_list' = trim_if_needed(Append(messages_list, Len(heap) + 1),
                                               max_turns)
    /\ internal_view' = Deref(heap', messages_list')
    /\ nops' = nops + 1
    /\ UNCHANGED <<history_list, got, gen, fresh>>
    /\ UNCHANGED <<memVars, appended, lastOp, regVars, extVars, turnVars, turnHist>>

\* get_conversation_history: the caller gets self.messages.copy()
CopyGetConversationHistory ==
    /\ nops < MaxCopyOps
    /\ history_list' = History(list_copy(messages_list))
    /\ internal_view' = Deref(heap, messages_list)
    /\ nops' = nops + 1
    /\ UNCHANGED <<heap, messages_list, got, gen, fresh>>
    /\ UNCHANGED <<memVars, appended, lastOp, regVars, extVars, turnVars, turnHist>>

\* the caller appends a dict of its own to the list it got
CallerAppend(entry) ==
    /\ nops < MaxCopyOps
    /\ history_list # NoHistory
    /\ heap' = Append(heap, entry)
    /\ history_list' = History(Append(history_list[1], Len(heap) + 1))
    /\ nops' = nops + 1
    /\ UNCHANGED <<messages_list, internal_view, got, gen, fresh>>
    /\ UNCHANGED <<memVars, appended, lastOp, regVars, extVars, turnVars, turnHist>>

\* the caller removes the entry at position i of the list it got
CallerRemove(i) ==
    /\ nops < MaxCopyOps
    /\ history_list # NoHistory
    /\ i \in 1..Len(history_list[1])
    /\ history_list' = History(SubSeq(history_list[1], 1, i - 1)
                               \o SubSeq(history_list[1], i + 1, Len(history_list[1])))
    /\ nops' = nops + 1
    /\ UNCHANGED <<heap, messages_list, internal_view, got, gen, fresh>>
    /\ UNCHANGED <<memVars, appended, lastOp, regVars, extVars, turnVars, turnHist>>

\* the caller assigns entry[key] = value on the entry at position i of its list
CallerSetItem(i, key, value) ==
    /\ nops < MaxCopyOps
    /\ history_list # NoHistory
    /\ i \in 1..Len(history_list[1])
    /\ heap' = [heap EXCEPT ![history_list[1][i]][key] = value]
    /\ nops' = nops + 1
    /\ UNCHANGED <<messages_list, history_list, internal_view, got, gen, fresh>>
    /\ UNCHANGED <<memVars, appended, lastOp, regVars, extVars, turnVars, turnHist>>

CopyNext ==
    \/ \E message \in MemTexts : CopyAddUserMessage(message)
    \/ \E message \in MemTexts : CopyAddAssistantMessage(message)
    \/ CopyGetConversationHistory
    \/ CallerAppend(Entry("user", <<"mine">>))
    \/ \E i \in 1..MaxCopyOps : CallerRemove(i)
    \/ \E i \in 1..MaxCopyOps : CallerSetItem(i, "content", <<"changed">>)
    \/ \E i \in 1..MaxCopyOps : CallerSetItem(i, "role", "system")

CopySpec == MemInit /\ [][CopyNext]_vars

(***************************************************************************)
(* ToolRegistry, QueryRouter, OutputParser's result shapes and the tools.  *)
(***************************************************************************)
ToolNames == {"TimestampTool", "NewsTool", "QRCodeTool"}   \* tools of the repository
GhostTool == "GhostTool"                                    \* a name never registered
ModelNames == ToolNames \cup {GhostTool}                    \* names a model reply may hold

\* a registry lookup that finds every name
get_tool_AlwaysFound(reg, name) == name

\* ToolRegistry.get_tool: the implementation registered under name, or None
get_tool(reg, name) == IF name \in reg THEN name ELSE None

\* dict.get(key, default) on a decoded JSON object
Get(obj, key, default) == IF key \in DOMAIN obj THEN obj[key] ELSE default

\* Python truthiness of a name-or-None value and of a text-or-None value
TruthyName(v) == v # None /\ v # ""
TruthyText(t) == t # NoneT /\ t # NoText

(* Replies of the model to the routing prompt, by what json.loads makes of   *)
(* them: no JSON at all, a JSON value that is no object, or an object.       *)
RouterReplies ==
    {[form |-> "prose", obj |-> <<>>], [form |-> "array", obj |-> <<>>],
     [form |-> "object", obj |-> <<>>],
     [form |-> "object", obj |-> [use_tool |-> FALSE, tool_name |-> None]],
     [form |-> "object", obj |-> [use_tool |-> TRUE, tool_name |-> None]]}
    \cup {[form |-> "object", obj |-> [use_tool |-> TRUE, tool_name |-> n]] :
             n \in ModelNames}

\* the except branch of should_use_tools, were it to let the failure through
DecodeFailure_Raises == [raised |-> TRUE, value |-> <<FALSE, None>>]

\* should_use_tools, lines 94-96: any failure of the decode gives (False, None)
DecodeFailure == [raised |-> FALSE, value |-> <<FALSE, None>>]

\* should_use_tools, lines 90-96: json.loads and the two dict.get calls
RouterDecode(reply) ==
    IF reply.form = "object"
    THEN [raised |-> FALSE,
          value  |-> <<Get(reply.obj, "use_tool", FALSE),
                       Get(reply.obj, "tool_name", None)>>]
    ELSE DecodeFailure

\* should_use_tools, a router that asks the model whatever tools it knows
RouterSkipsModel_Never(info) == FALSE

\* should_use_tools, lines 46-47: no model call when no tool is known
RouterSkipsModel(info) == info = {}

(* Replies of the model to the dispatch prompt.  A reply is a text; its     *)
(* second piece tells what OutputParser.parse_json recovers from it.         *)
DispatchReplies ==
    {<<"dispatch", "action", n, "valid">> : n \in ModelNames}
    \cup {<<"dispatch", "action", "TimestampTool", "invalid">>}
    \cup {<<"dispatch", "tool_only", "TimestampTool", "-">>,
          <<"dispatch", "error", "-", "-">>,
          <<"dispatch", "number", "-", "-">>}

\* OutputParser.parse_json: the value returned for a dispatch reply
parse_json(text) ==
    CASE text[2] = "action"    -> [shape |-> "dict", keys |-> {"tool", "parameters"},
                                   tool |-> text[3], parameters |-> text[4]]
      [] text[2] = "tool_only" -> [shape |-> "dict", keys |-> {"tool"},
                                   tool |-> text[3], parameters |-> None]
      [] text[2] = "error"     -> [shape |-> "dict", keys |-> {"error", "original_text"},
                                   tool |-> None, parameters |-> None]
      [] OTHER                 -> [shape |-> "number", keys |-> {},
                                   tool |-> None, parameters |-> None]

\* texts the model gives as a conversational or a follow-up reply
Replies == {<<"reply">>}
UserInputs == {<<"what time is it">>, <<"tech news">>}

\* what a tool's execute returns: its output, or an error string
ToolOutputs(name) == {<<"output of ", name>>, <<"Error: ", name, " failed">>}

\* agent.py line 212: f"Error: Tool '{tool_name}' not found"
NotFoundMsg(name) == <<"Error: Tool '", name, "' not found">>

\* a fallback that knows no tool at all
FallbackExecutes_None(suggested) == FALSE

\* agent.py lines 224-245: the suggested tools the fallback knows how to execute
FallbackExecutes(suggested) == suggested \in {"TimestampTool", "NewsTool"}

\* LLMProvider.generate, a prompt test that ignores the role of the last entry
PromptIsTrailing_AnyRole(prompt, hist) ==
    Len(hist) > 0 /\ hist[Len(hist)].content = prompt

\* LLMProvider.generate, lines 27-31, negated: the history ends with a user
\* entry whose content is the prompt
PromptIsTrailing(prompt, hist) ==
    /\ Len(hist) > 0
    /\ hist[Len(hist)].role = "user"
    /\ hist[Len(hist)].content = prompt

\* LLMProvider.generate, lines 18-34: the messages handed to the backend
generate(prompt, system_message, conversation_history) ==
    LET hist == IF conversation_history = NoHistory
                THEN <<>> ELSE conversation_history[1]
        sys  == IF TruthyText(system_message)
                THEN <<Entry("system", system_message)>> ELSE <<>>
    IN  IF TruthyText(prompt) /\ ~PromptIsTrailing(prompt, hist)
        THEN Append(sys \o hist, Entry("user", prompt))
        ELSE sys \o hist

(***************************************************************************)
(* GenSpec: LLMProvider.generate called with any arguments.                *)
(***************************************************************************)
GenTexts == {<<"p">>, <<"q">>}
GenPrompts == {NoneT, NoText} \cup GenTexts
GenSystemMessages == {NoneT, NoText, <<"s">>}
GenEntries == {Entry(role, content) : role \in {"user", "assistant"}, content \in GenTexts}
GenHistories ==
    {NoHistory} \cup
    {History(h) : h \in UNION {[1..n -> GenEntries] : n \in 0..MaxHistory}}

\* a call of generate up to the messages it hands to the backend
GenCall(prompt, system_message, conversation_history) ==
    /\ gen' = [prompt |-> prompt, system_message |-> system_message,
               conversation_history |-> conversation_history,
               sent |-> generate(prompt, system_message, conversation_history)]
    /\ UNCHANGED <<memVars, memHist, regVars, extVars, turnVars, turnHist, fresh, got, copyVars>>

GenNext ==
    \E prompt \in GenPrompts, system_message \in GenSystemMessages,
       conversation_history \in GenHistories :
        GenCall(prompt, system_message, conversation_history)

GenSpec == MemInit /\ [][GenNext]_vars

\* router.py lines 55-86: the routing prompt (tool descriptions, examples, query)
RouterPrompt(query) ==
    <<"You are a query router ... User query: \"">> \o query \o <<"\" ...">>

\* Agent.system_message (agent.py lines 30-91)
SystemMessage == <<"You are a helpful AI assistant with access to specialized tools. ...">>

\* agent.py lines 123-136: the conversational system message with tool context
ConvSystemMessage(recent_tools) ==
    LET line(t) == <<"- From ", t.tool, ": ">> \o t.result \o <<"...\n">>
        ctx[i \in 0..Len(recent_tools)] ==
            IF i = 0 THEN <<"\n\nRecent information from tools that may be relevant:\n">>
            ELSE ctx[i - 1] \o line(recent_tools[i])
    IN  <<"You are a helpful, friendly AI assistant. ...">>
        \o (IF recent_tools # <<>> THEN ctx[Len(recent_tools)] ELSE <<>>)

\* agent.py lines 153-191: the system message of the dispatch call
EnhancedSystemMessage(suggested, reg) ==
    IF TruthyName(suggested) /\ suggested \in reg
    THEN <<"IMPORTANT: The user's query requires using the ", suggested, ". ...">>
         \o <<"\n\n">> \o SystemMessage
    ELSE SystemMessage

\* agent.py lines 250-254: the follow-up prompt
FollowupPrompt(input, result) ==
    <<"The user asked: \"">> \o input \o <<"\"\nI've retrieved the following information:\n">>
    \o result \o <<"\n\nPlease provide a helpful response ...">>


(***************************************************************************)
(* Spec: turns of Agent.run.  An action runs from one suspension point     *)
(* (an awaited model call or tool execute call) to the next.               *)
(***************************************************************************)
\* Agent.__init__ after the tools were registered (ToolRegistry.register)
Init ==
    /\ MemoryInit
    /\ max_turns = MaxK
    /\ registry \in SUBSET ToolNames
    /\ tools_info = registry
    /\ IdleTurn
    /\ PureIdle

\* the suggested_tool argument of _process_with_tools (run, lines 102-107)
Suggested == IF TruthyName(decision[2]) THEN decision[2] ELSE None

\* return text, without adding it to memory
Finish_ReturnOnly(text) ==
    /\ messages' = messages
    /\ returned' = [kind |-> "text", value |-> text]
    /\ pc' = "done"
    /\ phases' = Append(phases, "DONE")
    /\ UNCHANGED <<calls, execs, pending, request>>

\* add_assistant_message(text); return text
Finish(text) ==
    /\ messages' = add_assistant_message(messages, max_turns, text)
    /\ returned' = [kind |-> "text", value |-> text]
    /\ pc' = "done"
    /\ phases' = Append(phases, "DONE")
    /\ UNCHANGED <<calls, execs, pending, request>>

\* a failure that is swallowed: the turn answers with an empty string
Raise_SilentEmptyReply == Finish(NoText)

\* an exception that is swallowed while the turn keeps waiting for a result
Raise_Suspended ==
    /\ pc' = "suspended"
    /\ UNCHANGED <<messages, returned, calls, execs, phases, pending, request>>

\* the turn's pipeline stops with an exception: nothing in run, should_use_tools
\* (its model call is outside the try), _process_conversation or
\* _process_with_tools catches it
Raise ==
    /\ pc' = "raised"
    /\ returned' = [kind |-> "raised", value |-> NoneT]
    /\ UNCHANGED <<messages, calls, execs, phases, pending, request>>

\* _process_conversation, lines 118-141: the conversational model call
ConversationRequest(ms, trs) ==
    [call |-> "conversation",
     sent |-> generate(NoneT, ConvSystemMessage(get_recent_tool_results(trs, 2)),
                       History(ms))]

\* _process_conversation up to its await of llm.generate (lines 115-141)
StartConversation(callsNow, phasesNow) ==
    /\ pc' = "conv_call"
    /\ calls' = Append(callsNow, "conversation")
    /\ phases' = Append(phasesNow, "CONVERSING")
    /\ request' = ConversationRequest(messages, tool_results)
    /\ UNCHANGED <<messages, returned, execs, pending>>

\* _process_with_tools up to its await of llm.generate (lines 147-198)
StartDispatch ==
    /\ pc' = "dispatch_call"
    /\ calls' = Append(calls, "dispatch")
    /\ phases' = Append(phases, "TOOL_DISPATCH")
    /\ request' = [call |-> "dispatch",
                   sent |-> generate(user_input,
                                     EnhancedSystemMessage(decision'[2], registry),
                                     NoHistory)]
    /\ UNCHANGED <<messages, returned, execs, pending>>

\* a dispatch that starts the tool and the follow-up model call side by side
StartExecute_AlongsideFollowup(name, via) ==
    /\ pc' = "exec_call"
    /\ pending' = [tool |-> name, via |-> via]
    /\ execs' = Append(execs, name)
    /\ calls' = Append(calls, "followup")
    /\ UNCHANGED <<messages, returned, phases, request>>

\* tool_class(); await tool.execute(...)  (lines 217-218 and 227-245)
StartExecute(name, via) ==
    /\ pc' = "exec_call"
    /\ pending' = [tool |-> name, via |-> via]
    /\ execs' = Append(execs, name)
    /\ UNCHANGED <<messages, returned, calls, phases, request>>

\* the await of llm.generate with the follow-up prompt (lines 248-258)
StartFollowup(result) ==
    /\ pc' = "followup_call"
    /\ calls' = Append(calls, "followup")
    /\ phases' = Append(phases, "TOOL_FOLLOWUP")
    /\ request' = [call |-> "followup",
                   sent |-> generate(FollowupPrompt(user_input, result),
                                     NoneT, History(messages))]
    /\ UNCHANGED <<messages, returned, execs, pending>>

\* a pipeline that asks for the follow-up whether or not a tool result exists
AfterParsedStep_AlwaysFollowup(result, response_text) == StartFollowup(result)

\* a pipeline whose fallback runs whenever a known tool was suggested, also
\* after the parsed action's tool has run
AfterParsedStep_FallbackRegardless(result, response_text) ==
    IF /\ TruthyName(Suggested)
       /\ get_tool(registry, Suggested) # None
       /\ FallbackExecutes(Suggested)
    THEN StartExecute(Suggested, "fallback")
    ELSE IF TruthyText(result)
         THEN StartFollowup(result)
         ELSE Finish(response_text)

\* _process_with_tools from line 223 on, with the tool result obtained so far
AfterParsedStep(result, response_text) ==
    IF /\ ~TruthyText(result)
       /\ TruthyName(Suggested)
       /\ get_tool(registry, Suggested) # None
       /\ FallbackExecutes(Suggested)
    THEN StartExecute(Suggested, "fallback")
    ELSE IF TruthyText(result)
         THEN StartFollowup(result)
         ELSE Finish(response_text)

\* Agent.run, lines 93-99: add_user_message, then should_use_tools up to its
\* model call, or through to the conversational model call when it makes none
RunStart(u) ==
    /\ pc \in {"idle", "done", "raised"}
    /\ nops < MaxSteps
    /\ turns' = turns + 1
    /\ user_input' = u
    /\ turnPre' = [messages |-> messages, tool_results |-> tool_results,
                   router_decisions |-> router_decisions]
    /\ messages' = add_user_message(messages, max_turns, u)
    /\ response' = [form |-> "none", obj |-> <<>>]
    /\ decision' = <<FALSE, None>>
    /\ tool_response' = NoneT
    /\ tool_name' = None
    /\ tool_result' = NoneT
    /\ pending' = [tool |-> None, via |-> None]
    /\ returned' = [kind |-> "none", value |-> NoneT]
    /\ execs' = <<>>
    /\ IF RouterSkipsModel(tools_info)
       THEN /\ pc' = "conv_call"
            /\ calls' = <<"conversation">>
            /\ phases' = <<"ROUTING", "CONVERSING">>
            /\ request' = ConversationRequest(messages', tool_results)
       ELSE /\ pc' = "router_call"
            /\ calls' = <<"router">>
            /\ phases' = <<"ROUTING">>
            /\ request' = [call |-> "router",
                           sent |-> generate(RouterPrompt(u), NoneT, NoHistory)]
    /\ UNCHANGED <<tool_results, router_decisions, max_turns, clock>>
    /\ UNCHANGED <<appended, lastOp, fresh, pureVars, regVars, extVars>>
    /\ nops' = nops + 1

\* a run that logs the router's decision in memory
DecisionLog_Recorded(rds, use_tool, suggested) ==
    add_router_decision(rds, max_turns, use_tool, suggested, NoText, clock)

\* Agent.run, lines 99-110: the decision is used to pick the path and is not
\* handed to add_router_decision; router_decisions after the routing step
DecisionLog(rds, use_tool, suggested) == rds

\* should_use_tools, lines 88-96, and run, lines 101-110
RouterReturn(reply) ==
    /\ pc = "router_call"
    /\ response' = reply
    /\ LET d == RouterDecode(reply)
       IN  IF d.raised
           THEN Raise /\ UNCHANGED <<decision, router_decisions>>
           ELSE /\ decision' = d.value
                /\ router_decisions' = DecisionLog(router_decisions,
                                                   d.value[1], d.value[2])
                /\ IF d.value[1]
                   THEN StartDispatch
                   ELSE StartConversation(calls, phases)
    /\ UNCHANGED <<user_input, tool_response, tool_name, tool_result>>
    /\ UNCHANGED <<tool_results, max_turns, clock>>
    /\ UNCHANGED <<appended, lastOp, fresh, pureVars, regVars, extVars, turnPre, turns>>
    /\ nops' = nops + 1

\* LLMProvider.generate raises (llm_provider.py lines 52-54); nothing catches it
ModelFails ==
    /\ pc \in {"router_call", "conv_call", "dispatch_call", "followup_call"}
    /\ Raise
    /\ UNCHANGED <<user_input, response, decision, tool_response, tool_name, tool_result>>
    /\ UNCHANGED <<tool_results, router_decisions, max_turns, clock>>
    /\ UNCHANGED <<appended, lastOp, fresh, pureVars, regVars, extVars, turnPre, turns>>
    /\ nops' = nops + 1

\* _process_conversation, lines 139-145
ConversationReturn(reply) ==
    /\ pc = "conv_call"
    /\ Finish(reply)
    /\ UNCHANGED <<user_input, response, decision, tool_response, tool_name, tool_result>>
    /\ UNCHANGED <<tool_results, router_decisions, max_turns, clock>>
    /\ UNCHANGED <<appended, lastOp, fresh, pureVars, regVars, extVars, turnPre, turns>>
    /\ nops' = nops + 1

\* _process_with_tools, lines 194-245: the dispatch reply is parsed and acted on.
\* A parsed value that is no container ("tool" in 42) raises TypeError at line 205.
DispatchReturn(reply) ==
    /\ pc = "dispatch_call"
    /\ tool_response' = reply
    /\ LET action == parse_json(reply)
       IN  IF action.shape # "dict"
           THEN Raise /\ UNCHANGED tool_name
           ELSE IF {"tool", "parameters"} \subseteq action.keys
                THEN /\ tool_name' = action.tool
                     /\ IF get_tool(registry, action.tool) = None
                        THEN Finish(NotFoundMsg(action.tool))
                        ELSE StartExecute(action.tool, "parsed")
                ELSE /\ AfterParsedStep(NoneT, reply)
                     /\ UNCHANGED tool_name
    /\ UNCHANGED <<user_input, response, decision, tool_result>>
    /\ UNCHANGED <<tool_results, router_decisions, max_turns, clock>>
    /\ UNCHANGED <<appended, lastOp, fresh, pureVars, regVars, extVars, turnPre, turns>>
    /\ nops' = nops + 1

\* tool.execute returns: lines 218-221 for the parsed action (the result is
\* recorded), lines 231 and 245 for the fallback (it is not); then line 248 on
ToolReturn(result) ==
    /\ pc = "exec_call"
    /\ result \in ToolOutputs(pending.tool)
    /\ tool_result' = result
    /\ IF pending.via = "parsed"
       THEN \E ts \in Now :
               /\ tool_results' = add_tool_result(tool_results, max_turns,
                                                  tool_name, result, ts)
               /\ clock' = ts
       ELSE UNCHANGED <<tool_results, clock>>
    /\ IF pending.via = "parsed"
       THEN AfterParsedStep(result, tool_response)
       ELSE IF TruthyText(result) THEN StartFollowup(result) ELSE Finish(tool_response)
    /\ UNCHANGED <<user_input, response, decision, tool_response, tool_name>>
    /\ UNCHANGED <<router_decisions, max_turns>>
    /\ UNCHANGED <<appended, lastOp, fresh, pureVars, regVars, extVars, turnPre, turns>>
    /\ nops' = nops + 1

\* tool.execute(**params) raises: the parsed parameters do not fit the tool's
\* signature; the fallback's own arguments always fit
ToolRaises ==
    /\ pc = "exec_call"
    /\ pending.via = "parsed"
    /\ parse_json(tool_response).parameters = "invalid"
    /\ Raise
    /\ UNCHANGED <<user_input, response, decision, tool_response, tool_name, tool_result>>
    /\ UNCHANGED <<tool_results, router_decisions, max_turns, clock>>
    /\ UNCHANGED <<appended, lastOp, fresh, pureVars, regVars, extVars, turnPre, turns>>
    /\ nops' = nops + 1

\* _process_with_tools, lines 256-262
FollowupReturn(reply) ==
    /\ pc = "followup_call"
    /\ Finish(reply)
    /\ UNCHANGED <<user_input, response, decision, tool_response, tool_name, tool_result>>
    /\ UNCHANGED <<tool_results, router_decisions, max_turns, clock>>
    /\ UNCHANGED <<appended, lastOp, fresh, pureVars, regVars, extVars, turnPre, turns>>
    /\ nops' = nops + 1

Next ==
    \/ \E u \in UserInputs : RunStart(u)
    \/ \E reply \in RouterReplies : RouterReturn(reply)
    \/ ModelFails
    \/ \E reply \in Replies : ConversationReturn(reply)
    \/ \E reply \in DispatchReplies : DispatchReturn(reply)
    \/ \E name \in ToolNames : \E result \in ToolOutputs(name) : ToolReturn(result)
    \/ ToolRaises
    \/ \E reply \in Replies : FollowupReturn(reply)

Spec == Init /\ [][Next]_vars

\* LiveSpec: the turns of Spec, with every outstanding model call and tool
\* execute call eventually returning or failing
MaxLiveTurns == 1

LiveRunStart(u) ==
    /\ turns < MaxLiveTurns
    /\ RunStart(u)

\* an outstanding call returns or fails
CallSettles ==
    \/ \E reply \in RouterReplies : RouterReturn(reply)
    \/ ModelFails
    \/ \E reply \in Replies : ConversationReturn(reply)
    \/ \E reply \in DispatchReplies : DispatchReturn(reply)
    \/ \E name \in ToolNames : \E result \in ToolOutputs(name) : ToolReturn(result)
    \/ ToolRaises
    \/ \E reply \in Replies : FollowupReturn(reply)

LiveNext ==
    \/ \E u \in UserInputs : LiveRunStart(u)
    \/ \E reply \in RouterReplies : RouterReturn(reply)
    \/ ModelFails
    \/ \E reply \in Replies : ConversationReturn(reply)
    \/ \E reply \in DispatchReplies : DispatchReturn(reply)
    \/ \E name \in ToolNames : \E result \in ToolOutputs(name) : ToolReturn(result)
    \/ ToolRaises
    \/ \E reply \in Replies : FollowupReturn(reply)

LiveSpec == Init /\ [][LiveNext]_vars /\ WF_vars(CallSettles)


(***************************************************************************)
(* OutputParser.parse_json on texts.  Here a text is a sequence of tokens: *)
(* a run of word characters (\w+) is one token, a code fence (three         *)
(* backticks) is the token Fence, every other character is its own token.   *)
(***************************************************************************)
Fence == "<fence>"
Whitespace == {" ", "\n"}
Special == {"{", "}", "[", "]", ":", ",", "\"", "'", Fence, ".", "/", "!"}
IsWord(t) == t \notin Whitespace \cup Special       \* the token matches \w+
DigitWords == {"1", "5", "10", "42"}                 \* the tokens matching [0-9]+

\* index of the first token at or after i that is tok, 0 when there is none
IndexFrom(s, i, tok) ==
    IF \E j \in i..Len(s) : s[j] = tok
    THEN CHOOSE j \in i..Len(s) : s[j] = tok /\ \A k \in i..(j - 1) : s[k] # tok
    ELSE 0

\* index of the last token that is tok, 0 when there is none
LastIndex(s, tok) ==
    IF \E j \in 1..Len(s) : s[j] = tok
    THEN CHOOSE j \in 1..Len(s) : s[j] = tok /\ \A k \in (j + 1)..Len(s) : s[k] # tok
    ELSE 0

\* \s* from position i on: the first position that holds no whitespace
SkipWs(s, i) ==
    CHOOSE j \in i..(Len(s) + 1) :
        /\ j = Len(s) + 1 \/ s[j] \notin Whitespace
        /\ \A k \in i..(j - 1) : s[k] \in Whitespace

\* str.strip()
Strip(s) ==
    LET a == SkipWs(s, 1)
        b == IF a > Len(s) THEN 0
             ELSE CHOOSE j \in a..Len(s) :
                      /\ s[j] \notin Whitespace
                      /\ \A k \in (j + 1)..Len(s) : s[k] \in Whitespace
    IN  IF a > Len(s) THEN <<>> ELSE SubSeq(s, a, b)

(* The values json.loads returns, and Python's dict, list, str and int.     *)
JStr(text)  == [kind |-> "str", text |-> text, members |-> <<>>]
JInt(word)  == [kind |-> "int", text |-> <<word>>, members |-> <<>>]
JLit(word)  == [kind |-> word, text |-> <<>>, members |-> <<>>]
JList(elems) == [kind |-> "list", text |-> <<>>, members |-> elems]
\* a dict built from key/value pairs in order: a later pair replaces an
\* earlier one of the same key, and the order of keys is of no account
JDict(pairs) ==
    [kind |-> "dict", text |-> <<>>,
     members |-> [k \in {pairs[i][1] : i \in 1..Len(pairs)} |->
                     LET last == CHOOSE i \in 1..Len(pairs) :
                                    /\ pairs[i][1] = k
                                    /\ \A j \in (i + 1)..Len(pairs) : pairs[j][1] # k
                     IN  pairs[last][2]]]

\* the decoder stops: json.JSONDecodeError
JFail == [ok |-> FALSE, value |-> JLit("null"), next |-> 0]
JOk(value, next) == [ok |-> TRUE, value |-> value, next |-> next]

\* a JSON string at position i: from the quote to the next quote, which no
\* line break may precede
JString(s, i) ==
    IF i > Len(s) \/ s[i] # "\"" THEN JFail
    ELSE LET j == IndexFrom(s, i + 1, "\"")
         IN  IF j = 0 \/ \E k \in (i + 1)..(j - 1) : s[k] = "\n"
             THEN JFail
             ELSE JOk(JStr(SubSeq(s, i + 1, j - 1)), j + 1)

RECURSIVE JValue(_, _), JMembers(_, _, _), JElements(_, _, _)

\* the members of an object from position i on, acc the pairs read so far
JMembers(s, i, acc) ==
    LET key == JString(s, i)
        c   == IF key.ok THEN SkipWs(s, key.next) ELSE 0
        v   == IF key.ok /\ c <= Len(s) /\ s[c] = ":"
               THEN JValue(s, SkipWs(s, c + 1)) ELSE JFail
        d   == IF v.ok THEN SkipWs(s, v.next) ELSE 0
        all == Append(acc, <<key.value.text, v.value>>)
    IN  IF ~v.ok \/ d > Len(s) THEN JFail
        ELSE IF s[d] = "}" THEN JOk(JDict(all), d + 1)
        ELSE IF s[d] = "," THEN JMembers(s, SkipWs(s, d + 1), all)
        ELSE JFail

\* the elements of an array from position i on, acc the values read so far
JElements(s, i, acc) ==
    LET v == JValue(s, i)
        d == IF v.ok THEN SkipWs(s, v.next) ELSE 0
        all == Append(acc, v.value)
    IN  IF ~v.ok \/ d > Len(s) THEN JFail
        ELSE IF s[d] = "]" THEN JOk(JList(all), d + 1)
        ELSE IF s[d] = "," THEN JElements(s, SkipWs(s, d + 1), all)
        ELSE JFail

\* a JSON value at position i (whitespace already skipped)
JValue(s, i) ==
    IF i > Len(s) THEN JFail
    ELSE IF s[i] = "\"" THEN JString(s, i)
    ELSE IF s[i] = "{"
         THEN LET j == SkipWs(s, i + 1)
              IN  IF j <= Len(s) /\ s[j] = "}" THEN JOk(JDict(<<>>), j + 1)
                  ELSE JMembers(s, j, <<>>)
    ELSE IF s[i] = "["
         THEN LET j == SkipWs(s, i + 1)
              IN  IF j <= Len(s) /\ s[j] = "]" THEN JOk(JList(<<>>), j + 1)
                  ELSE JElements(s, j, <<>>)
    ELSE IF s[i] \in DigitWords THEN JOk(JInt(s[i]), i + 1)
    ELSE IF s[i] \in {"true", "false", "null"} THEN JOk(JLit(s[i]), i + 1)
    ELSE JFail

\* json.loads: one value, whitespace around it, and nothing else
json_loads(s) ==
    LET v == JValue(s, SkipWs(s, 1))
    IN  IF v.ok /\ SkipWs(s, v.next) = Len(s) + 1 THEN v ELSE JFail

Quote == "\""

\* re.search(r'[fence](?:json)?\s*([\s\S]*?)\s*[fence]', text), line 11:
\* group 1 of the leftmost match, found |-> FALSE when nothing matches
BlockMatch(text) ==
    LET i == IndexFrom(text, 1, Fence)
        a == IF i # 0 /\ i < Len(text) /\ text[i + 1] = "json" THEN i + 2 ELSE i + 1
        j == IF i = 0 THEN 0 ELSE IndexFrom(text, a, Fence)
    IN  IF j = 0 THEN [found |-> FALSE, group |-> <<>>]
        ELSE [found |-> TRUE, group |-> Strip(SubSeq(text, a, j - 1))]

\* re.search(r'({[\s\S]*})', text), line 16: from the first { to the last }
BraceMatch(text) ==
    LET i == IndexFrom(text, 1, "{")
        j == LastIndex(text, "}")
    IN  IF i = 0 \/ j < i THEN [found |-> FALSE, group |-> <<>>]
        ELSE [found |-> TRUE, group |-> SubSeq(text, i, j)]

\* re.sub(r"'([^']*)':", r'"\1":', json_str), line 28
RECURSIVE QuoteSingleQuotedKeys(_, _)
QuoteSingleQuotedKeys(s, i) ==
    IF i > Len(s) THEN <<>>
    ELSE LET j == IF s[i] = "'" THEN IndexFrom(s, i + 1, "'") ELSE 0
         IN  IF j # 0 /\ j < Len(s) /\ s[j + 1] = ":"
             THEN <<Quote>> \o SubSeq(s, i + 1, j - 1) \o <<Quote, ":">>
                  \o QuoteSingleQuotedKeys(s, j + 2)
             ELSE <<s[i]>> \o QuoteSingleQuotedKeys(s, i + 1)

\* re.sub(r'(\s*)(\w+)(\s*):', r'\1"\2"\3:', json_str), line 30: every word
\* that a colon follows, whitespace apart, gets quotes -- inside strings too
QuoteBareKeys(s) ==
    LET isKey(i) == /\ IsWord(s[i])
                    /\ LET c == SkipWs(s, i + 1) IN c <= Len(s) /\ s[c] = ":"
        out[i \in 0..Len(s)] ==
            IF i = 0 THEN <<>>
            ELSE out[i - 1] \o (IF isKey(i) THEN <<Quote, s[i], Quote>> ELSE <<s[i]>>)
    IN  out[Len(s)]

\* the three tokens "name" at position i
QuotedNameAt(s, i, name) ==
    i + 2 <= Len(s) /\ s[i] = Quote /\ s[i + 1] = name /\ s[i + 2] = Quote

\* re.search(r'"tool"\s*:\s*"([^"]+)"', text), line 40
ToolMatch(text) ==
    LET at(i) ==
            LET c == SkipWs(text, i + 3)
                d == IF c <= Len(text) /\ text[c] = ":" THEN SkipWs(text, c + 1) ELSE 0
                e == IF d # 0 /\ d <= Len(text) /\ text[d] = Quote
                     THEN IndexFrom(text, d + 1, Quote) ELSE 0
            IN  IF QuotedNameAt(text, i, "tool") /\ e > d + 1
                THEN [found |-> TRUE, group |-> SubSeq(text, d + 1, e - 1)]
                ELSE [found |-> FALSE, group |-> <<>>]
    IN  IF \E i \in 1..Len(text) : at(i).found
        THEN at(CHOOSE i \in 1..Len(text) :
                    at(i).found /\ \A k \in 1..(i - 1) : ~at(k).found)
        ELSE [found |-> FALSE, group |-> <<>>]

\* re.search(r'"parameters"\s*:\s*{([^}]+)}', text), line 45
ParamsMatch(text) ==
    LET at(i) ==
            LET c == SkipWs(text, i + 3)
                d == IF c <= Len(text) /\ text[c] = ":" THEN SkipWs(text, c + 1) ELSE 0
                e == IF d # 0 /\ d <= Len(text) /\ text[d] = "{"
                     THEN IndexFrom(text, d + 1, "}") ELSE 0
            IN  IF QuotedNameAt(text, i, "parameters") /\ e > d + 1
                THEN [found |-> TRUE, group |-> SubSeq(text, d + 1, e - 1)]
                ELSE [found |-> FALSE, group |-> <<>>]
    IN  IF \E i \in 1..Len(text) : at(i).found
        THEN at(CHOOSE i \in 1..Len(text) :
                    at(i).found /\ \A k \in 1..(i - 1) : ~at(k).found)
        ELSE [found |-> FALSE, group |-> <<>>]

\* re.finditer(r'"([^"]+)"\s*:\s*("[^"]*"|[0-9]+)', params_text), lines 49-56:
\* the key/value pairs found from position i on, a digit value made an int
RECURSIVE KeyValuePairs(_, _)
KeyValuePairs(s, i) ==
    IF i > Len(s) THEN <<>>
    ELSE LET e == IF s[i] = Quote THEN IndexFrom(s, i + 1, Quote) ELSE 0
             c == IF e > i + 1 THEN SkipWs(s, e + 1) ELSE 0
             d == IF c # 0 /\ c <= Len(s) /\ s[c] = ":" THEN SkipWs(s, c + 1) ELSE 0
             f == IF d # 0 /\ d <= Len(s) /\ s[d] = Quote
                  THEN IndexFrom(s, d + 1, Quote) ELSE 0
         IN  IF f # 0
             THEN <<<<SubSeq(s, i + 1, e - 1), JStr(SubSeq(s, d + 1, f - 1))>>>>
                  \o KeyValuePairs(s, f + 1)
             ELSE IF d # 0 /\ d <= Len(s) /\ s[d] \in DigitWords
             THEN <<<<SubSeq(s, i + 1, e - 1), JInt(s[d])>>>>
                  \o KeyValuePairs(s, d + 1)
             ELSE KeyValuePairs(s, i + 1)

\* what parse_json hands back: a value, or an exception
Returns(value) == [raised |-> FALSE, value |-> value]

\* a last resort that lets the decoder's exception through
LastResort_Raises(text) == [raised |-> TRUE, value |-> JLit("null")]

\* lines 35-60: the last resort after any exception of lines 10-34
LastResort(text) ==
    LET tool_match == ToolMatch(text)
        params_match == ParamsMatch(text)
        params == IF params_match.found
                  THEN JDict(KeyValuePairs(params_match.group, 1))
                  ELSE JDict(<<>>)
    IN  IF tool_match.found
        THEN Returns(JDict(<< <<(<<"tool">>), JStr(tool_match.group)>>,
                              <<(<<"parameters">>), params>> >>))
        ELSE Returns(JDict(<< <<(<<"error">>), JStr(<<"Failed to parse output: ...">>)>>,
                              <<(<<"original_text">>), JStr(text)>> >>))

\* OutputParser.parse_json (lines 7-60) on a text
parse_json_text(text) ==
    LET block == BlockMatch(text)
        brace == BraceMatch(text)
        json_str == IF block.found THEN block.group
                    ELSE IF brace.found THEN brace.group
                    ELSE text
        fixed == QuoteBareKeys(QuoteSingleQuotedKeys(Strip(json_str), 1))
        action_data == json_loads(fixed)
    IN  IF action_data.ok THEN Returns(action_data.value) ELSE LastResort(text)

(***************************************************************************)
(* ParseSpec: parse_json called on model replies.  A reply is an action    *)
(* written out in one of two styles, bare or inside a fenced block with    *)
(* prose around it, or a text that holds no action.                        *)
(***************************************************************************)
Url == <<"https", ":", "/", "/", "example", ".", "com">>
ParseTools == {<<"NewsTool">>, <<"QRCodeTool">>}
ParseParams ==
    {<<>>,
     << <<(<<"category">>), JStr(<<"technology">>)>> >>,
     << <<(<<"category">>), JStr(<<"technology">>)>>, <<(<<"limit">>), JInt("5")>> >>,
     << <<(<<"category">>), JStr(<<"technology">>)>>, <<(<<"latest">>), JLit("true")>> >>,
     << <<(<<"content">>), JStr(Url)>> >>,
     << <<(<<"content">>), JStr(Url)>>, <<(<<"size">>), JInt("10")>> >>,
     << <<(<<"content">>), JStr(Url)>>, <<(<<"transparent">>), JLit("true")>> >>}
ProseBefore == {<<>>, <<"Sure", "!", "\n">>, <<"Note", ":", " ", "here", "\n">>}
ProseAfter == {<<>>, <<"\n", "Done", ".">>, <<"\n", "the", " ", "time", ":", " ", "soon">>}
PlainTexts ==
    {<<>>, <<"hello">>, <<"42">>, <<"the", " ", "number", " ", "42">>,
     <<Quote, "hi", Quote>>, <<"[", "1", "]">>, <<"null">>,
     <<"{", Quote, "answer", Quote, ":", " ", "42", "}">>,
     <<"time", ":", " ", "5">>, <<Fence, "\n", "42", "\n", Fence>>}

\* a scalar written out, strings between the quote character q
WriteScalar(v, q) ==
    IF v.kind = "str" THEN <<q>> \o v.text \o <<q>>
    ELSE IF v.kind = "int" THEN v.text
    ELSE <<v.kind>>

\* key/value pairs written out as an object, json.dumps spacing; keys between
\* kq (none when kq is empty), strings between q
WriteObject(pairs, kq, q) ==
    LET member(i) == kq \o pairs[i][1] \o kq \o <<":", " ">> \o WriteScalar(pairs[i][2], q)
        out[i \in 0..Len(pairs)] ==
            IF i = 0 THEN <<>>
            ELSE out[i - 1] \o (IF i > 1 THEN <<",", " ">> ELSE <<>>) \o member(i)
    IN  <<"{">> \o out[Len(pairs)] \o <<"}">>

\* the action {tool, parameters} written out: "canonical" as json.dumps does,
\* "tolerant" with unquoted keys and single-quoted strings
WriteAction(tool, params, style) ==
    LET kq == IF style = "canonical" THEN <<Quote>> ELSE <<>>
        q  == IF style = "canonical" THEN Quote ELSE "'"
    IN  <<"{">> \o kq \o <<"tool">> \o kq \o <<":", " ", q>> \o tool \o <<q, ",", " ">>
        \o kq \o <<"parameters">> \o kq \o <<":", " ">>
        \o WriteObject(params, kq, q) \o <<"}">>

\* a fenced code block holding body
FencedBlock(body) == <<Fence, "json", "\n">> \o body \o <<"\n", Fence>>

ParseInputs ==
    {[text |-> WriteAction(tool, params, style), tool |-> tool, params |-> params,
      style |-> style, wrap |-> "bare"] :
        tool \in ParseTools, params \in ParseParams, style \in {"canonical", "tolerant"}}
    \cup
    {[text |-> before \o FencedBlock(WriteAction(tool, params, "canonical")) \o after,
      tool |-> tool, params |-> params, style |-> "canonical", wrap |-> "fenced"] :
        tool \in ParseTools, params \in ParseParams,
        before \in ProseBefore, after \in ProseAfter}
    \cup
    {[text |-> text, tool |-> <<>>, params |-> <<>>, style |-> "none", wrap |-> "none"] :
        text \in PlainTexts}

\* a call of OutputParser.parse_json
ParseCall(input) ==
    /\ parsed' = [text |-> input.text, called |-> TRUE,
                  out |-> parse_json_text(input.text),
                  tool |-> input.tool, params |-> input.params,
                  style |-> input.style, wrap |-> input.wrap]
    /\ UNCHANGED <<memVars, memHist, regVars, turnVars, turnHist, fresh, pureVars, regState, mgrState,
                   toolState, sessState>>

ParseNext == \E input \in ParseInputs : ParseCall(input)

ParseSpec == MemInit /\ [][ParseNext]_vars

(***************************************************************************)
(* RegSpec: ToolRegistry with its mapping from names to implementations.   *)
(* An implementation is identified by its type name; a dict is a sequence  *)
(* of (key, value) pairs with distinct keys, in insertion order.           *)
(***************************************************************************)
MaxRegs == 3
Implementations == {"NewsTool", "MockNews"}                  \* tool classes
NamesGiven == {None, "", "NewsTool", "news"}                 \* register's name argument
NamesAsked == {"", "NewsTool", "QRCodeTool", "MockNews", "news"}

\* d[key] = value: an existing key keeps its place, a new key goes last
dict_set(d, key, value) ==
    IF \E i \in 1..Len(d) : d[i][1] = key
    THEN [i \in 1..Len(d) |-> IF d[i][1] = key THEN <<key, value>> ELSE d[i]]
    ELSE Append(d, <<key, value>>)

\* d.get(key): the value, or None
dict_get(d, key) ==
    IF \E i \in 1..Len(d) : d[i][1] = key
    THEN (CHOOSE pair \in {d[i] : i \in 1..Len(d)} : pair[1] = key)[2]
    ELSE None

\* list(d.keys())
dict_keys(d) == [i \in 1..Len(d) |-> d[i][1]]

\* name or tool_class.__name__
RegisteredName(name, tool_class) == IF TruthyName(name) THEN name ELSE tool_class

\* ToolRegistry.register(name)(tool_class)
Register(name, tool_class) ==
    /\ Len(registered) < MaxRegs
    /\ _tools' = dict_set(_tools, RegisteredName(name, tool_class), tool_class)
    /\ registered' = Append(registered, <<name, tool_class>>)
    /\ UNCHANGED <<memVars, memHist, regVars, turnVars, turnHist, fresh, pureVars,
                   parsed, looked, mgrState, toolState, sessState>>

\* ToolRegistry.get_tool(name)
GetTool(name) ==
    /\ looked' = [op |-> "get_tool", name |-> name, out |-> <<dict_get(_tools, name)>>,
                  at |-> Len(registered)]
    /\ UNCHANGED <<memVars, memHist, regVars, turnVars, turnHist, fresh, pureVars,
                   parsed, _tools, registered, mgrState, toolState, sessState>>

\* ToolRegistry.list_tools()
ListTools ==
    /\ looked' = [op |-> "list_tools", name |-> "", out |-> dict_keys(_tools),
                  at |-> Len(registered)]
    /\ UNCHANGED <<memVars, memHist, regVars, turnVars, turnHist, fresh, pureVars,
                   parsed, _tools, registered, mgrState, toolState, sessState>>

RegNext ==
    \/ \E name \in NamesGiven, tool_class \in Implementations : Register(name, tool_class)
    \/ \E name \in NamesAsked : GetTool(name)
    \/ ListTools

RegSpec == MemInit /\ [][RegNext]_vars

(***************************************************************************)
(* MgrSpec: AgentManager for one session.  The session's agent, when it is *)
(* in memory, owns the three logs; the history file outlives the process.  *)
(* Here a content is a sequence of characters.                             *)
(***************************************************************************)
MaxMgrOps == 7
memory_turns == 10          \* Agent.__init__'s default memory_turns
PrefixLen == 100            \* the [:100] of save_agent's msg_identifier
SessionId == "s1"
LongText(c) == [i \in 1..PrefixLen |-> "x"] \o <<c>>    \* PrefixLen characters, then c
MgrUserTexts == {LongText("a"), LongText("b")}
MgrAssistantTexts == {<<"o", "k">>}

\* json.dump of the messages: an array of {role, content} objects
json_dump(ms) == [i \in 1..Len(ms) |-> <<(<<"role", ms[i].role>>), <<"content", ms[i].content>>>>]

\* a load that hands back the entries last first
json_load_Reversed(file) ==
    [i \in 1..Len(file) |-> [role |-> file[Len(file) + 1 - i][1][2],
                             content |-> file[Len(file) + 1 - i][2][2]]]

\* json.load of the file: a list of dicts
json_load(file) == [i \in 1..Len(file) |-> [role |-> file[i][1][2], content |-> file[i][2][2]]]

\* a message identifier that takes the whole content
msg_identifier_WholeContent(msg) == <<msg.role, msg.content>>

\* (msg["role"], msg.get("content", "")[:100])
msg_identifier(msg) ==
    <<msg.role,
      SubSeq(msg.content, 1, IF Len(msg.content) < PrefixLen THEN Len(msg.content) ELSE PrefixLen)>>

\* the loop of save_agent, lines 61-67, from message i on
RECURSIVE Deduplicate(_, _, _, _)
Deduplicate(ms, i, seen_messages, unique) ==
    IF i > Len(ms) THEN unique
    ELSE IF msg_identifier(ms[i]) \in seen_messages
         THEN Deduplicate(ms, i + 1, seen_messages, unique)
         ELSE Deduplicate(ms, i + 1, seen_messages \cup {msg_identifier(ms[i])},
                          Append(unique, ms[i]))

unique_messages(ms) == Deduplicate(ms, 1, {}, <<>>)

\* a rebuild that replays the user's messages only
RECURSIVE Replay_UserOnly(_, _, _, _)
Replay_UserOnly(history, i, ms, k) ==
    IF i > Len(history) THEN ms
    ELSE Replay_UserOnly(history, i + 1,
                IF history[i].role = "user"
                THEN add_user_message(ms, k, history[i].content)
                ELSE ms, k)

\* the loop of get_agent, lines 40-44, from message i on
RECURSIVE Replay(_, _, _, _)
Replay(history, i, ms, k) ==
    IF i > Len(history) THEN ms
    ELSE Replay(history, i + 1,
                IF history[i].role = "user"
                THEN add_user_message(ms, k, history[i].content)
                ELSE IF history[i].role = "assistant"
                     THEN add_assistant_message(ms, k, history[i].content)
                     ELSE ms, k)

\* the record of a manager step taken from the current state
MgrStep(op) ==
    [op |-> op, prev |-> mgr_last.op, prev2 |-> mgr_last.prev,
     loaded |-> SessionId \in _agents, file |-> history_file,
     saved |-> mgr_last.saved,          \* the messages in memory at the end of the last save
     pre |-> [messages |-> messages, tool_results |-> tool_results,
              router_decisions |-> router_decisions]]

MgrFrame ==
    /\ nops < MaxMgrOps
    /\ nops' = nops + 1
    /\ UNCHANGED <<max_turns, clock, appended, lastOp, regVars, turnVars, turnHist,
                   fresh, pureVars, parsed, regState, toolState, sessState>>

\* AgentManager.get_agent(session_id)
GetAgent ==
    /\ MgrFrame
    /\ mgr_last' = MgrStep("get_agent")
    /\ IF SessionId \in _agents
       THEN UNCHANGED <<messages, tool_results, router_decisions, _agents>>
       ELSE /\ messages' = IF history_file # <<>>
                           THEN Replay(json_load(history_file[1]), 1, <<>>, max_turns)
                           ELSE <<>>
            /\ tool_results' = <<>>
            /\ router_decisions' = <<>>
            /\ _agents' = _agents \cup {SessionId}
    /\ UNCHANGED history_file

\* a turn of the session's agent adds the user's message
MgrAddUserMessage(message) ==
    /\ SessionId \in _agents
    /\ MgrFrame
    /\ mgr_last' = MgrStep("add_user_message")
    /\ messages' = add_user_message(messages, max_turns, message)
    /\ UNCHANGED <<tool_results, router_decisions, _agents, history_file>>

\* a turn of the session's agent adds its reply
MgrAddAssistantMessage(message) ==
    /\ SessionId \in _agents
    /\ MgrFrame
    /\ mgr_last' = MgrStep("add_assistant_message")
    /\ messages' = add_assistant_message(messages, max_turns, message)
    /\ UNCHANGED <<tool_results, router_decisions, _agents, history_file>>

\* a turn of the session's agent records a tool result
MgrAddToolResult ==
    /\ SessionId \in _agents
    /\ MgrFrame
    /\ mgr_last' = MgrStep("add_tool_result")
    /\ tool_results' = add_tool_result(tool_results, max_turns, "TimestampTool",
                                       <<"r">>, clock)
    /\ UNCHANGED <<messages, router_decisions, _agents, history_file>>

\* the holder of the session's agent records a router decision in its memory
MgrAddRouterDecision ==
    /\ SessionId \in _agents
    /\ MgrFrame
    /\ mgr_last' = MgrStep("add_router_decision")
    /\ router_decisions' = add_router_decision(router_decisions, max_turns, TRUE,
                                               "TimestampTool", <<"why">>, clock)
    /\ UNCHANGED <<messages, tool_results, _agents, history_file>>

\* AgentManager.save_agent(session_id)
SaveAgent ==
    /\ MgrFrame
    /\ IF SessionId \in _agents
       THEN /\ messages' = unique_messages(messages)
            /\ history_file' = <<json_dump(messages')>>
       ELSE UNCHANGED <<messages, history_file>>
    /\ mgr_last' = [MgrStep("save_agent") EXCEPT !.saved = IF SessionId \in _agents
                                                         THEN messages' ELSE @]
    /\ UNCHANGED <<tool_results, router_decisions, _agents>>

\* AgentManager.clear_agent(session_id)
ClearAgent ==
    /\ MgrFrame
    /\ mgr_last' = MgrStep("clear_agent")
    /\ IF SessionId \in _agents
       THEN /\ messages' = clear(messages, tool_results, router_decisions).messages
            /\ tool_results' = clear(messages, tool_results, router_decisions).tool_results
            /\ router_decisions' =
                  clear(messages, tool_results, router_decisions).router_decisions
            /\ history_file' = <<>>
       ELSE UNCHANGED <<messages, tool_results, router_decisions, history_file>>
    /\ UNCHANGED _agents

\* the process ends and a new one starts: _agents = {} again (line 9), the
\* agents and their memories are gone, the cache directory is as it was
ProcessRestart ==
    /\ _agents # {}
    /\ MgrFrame
    /\ mgr_last' = MgrStep("restart")
    /\ _agents' = {}
    /\ messages' = <<>>
    /\ tool_results' = <<>>
    /\ router_decisions' = <<>>
    /\ UNCHANGED history_file

MgrInit ==
    /\ messages = <<>>
    /\ tool_results = <<>>
    /\ router_decisions = <<>>
    /\ max_turns = memory_turns
    /\ clock = 0
    /\ appended = <<>>
    /\ lastOp = [op |-> "init", text |-> NoText, name |-> None,
                 pre |-> <<>>, preT |-> <<>>, preR |-> <<>>]
    /\ nops = 0
    /\ fresh = [messages |-> <<>>, tool_results |-> <<>>, router_decisions |-> <<>>,
                max_turns |-> max_turns, cleared |-> FALSE]
    /\ turnPre = [messages |-> <<>>, tool_results |-> <<>>, router_decisions |-> <<>>]
    /\ registry = {}
    /\ tools_info = {}
    /\ IdleTurn
    /\ PureIdle

MgrNext ==
    \/ GetAgent
    \/ \E message \in MgrUserTexts : MgrAddUserMessage(message)
    \/ \E message \in MgrAssistantTexts : MgrAddAssistantMessage(message)
    \/ MgrAddToolResult
    \/ MgrAddRouterDecision
    \/ SaveAgent
    \/ ClearAgent
    \/ ProcessRestart

MgrSpec == MgrInit /\ [][MgrNext]_vars

(***************************************************************************)
(* QrSpec: QRCodeTool.execute and its size parameter.  A size argument is  *)
(* a record: an int or a bool by its value n, a float by n tenths, a       *)
(* string by its characters, or None, a list, infinity, nan, or absent.    *)
(***************************************************************************)
MaxSizeLen == 3
SizeChars == {"0", "3", "5", "x", "."}
Digit == [c \in {"0", "3", "5"} |-> IF c = "0" THEN 0 ELSE IF c = "3" THEN 3 ELSE 5]
SizeValue(kind, n, text) == [kind |-> kind, n |-> n, text |-> text]
IntSizes == {-5, 0, 50, 99, 100, 101, 200, 300, 499, 500, 501, 1000}
TenthSizes == {-5, 995, 999, 1000, 1005, 2505, 4999, 5000, 5009, 5010, 10000}
SizeArguments ==
    {SizeValue(k, 0, <<>>) : k \in {"absent", "none", "list", "inf", "nan"}}
    \cup {SizeValue("bool", n, <<>>) : n \in {0, 1}}
    \cup {SizeValue("int", n, <<>>) : n \in IntSizes}
    \cup {SizeValue("float", n, <<>>) : n \in TenthSizes}
    \cup {SizeValue("str", 0, text) : text \in UNION {[1..l -> SizeChars] : l \in 0..MaxSizeLen}}

\* the outcome of a conversion: a value, or the exception raised
Converted(n) == [raised |-> "none", value |-> n]
Raises(exception) == [raised |-> exception, value |-> 0]

\* the digits of text read as a decimal number
DecimalValue(text) ==
    LET v[i \in 0..Len(text)] == IF i = 0 THEN 0 ELSE v[i - 1] * 10 + Digit[text[i]]
    IN  v[Len(text)]

\* int(str): surrounding whitespace is dropped, then digits only
int_of_str(text) ==
    LET t == Strip(text)
    IN  IF t # <<>> /\ \A i \in 1..Len(t) : t[i] \in DOMAIN Digit
        THEN Converted(DecimalValue(t))
        ELSE Raises("ValueError")

\* int(float): the fraction is cut off, toward zero
int_of_tenths(n) == Converted(IF n >= 0 THEN n \div 10 ELSE -((-n) \div 10))

\* int(size)
int(size) ==
    CASE size.kind \in {"int", "bool"} -> Converted(size.n)
      [] size.kind = "float" -> int_of_tenths(size.n)
      [] size.kind = "str" -> int_of_str(size.text)
      [] size.kind = "inf" -> Raises("OverflowError")
      [] size.kind = "nan" -> Raises("ValueError")
      [] OTHER -> Raises("TypeError")

\* a range test that lets every size through
OutOfRange_Never(size) == FALSE

\* qr_code.py line 130
OutOfRange(size) == size < 100 \/ size > 500

\* QRCodeTool.execute, lines 122-131 and 157-179, for a text content that
\* renders: the size of the code made, or the error string of line 179
execute_size(size) ==
    LET given == IF size.kind = "absent" THEN Converted(200)      \* the default, line 112
                 ELSE IF size.kind = "none" THEN Converted(200)   \* line 125
                 ELSE int(size)
    IN  IF given.raised \in {"ValueError", "TypeError"}            \* lines 126-127
        THEN [kind |-> "ok", size |-> 200]
        ELSE IF given.raised # "none"                              \* lines 178-179
             THEN [kind |-> "error", size |-> 0]
             ELSE [kind |-> "ok",
                   size |-> IF OutOfRange(given.value) THEN 200 ELSE given.value]

\* a call of QRCodeTool.execute(content="Test", size=size)
QrExecute(size) ==
    /\ qr_call' = [called |-> TRUE, size |-> size, out |-> execute_size(size)]
    /\ UNCHANGED <<memVars, memHist, regVars, turnVars, turnHist, fresh, pureVars,
                   parsed, regState, mgrState, sessState>>

QrNext == \E size \in SizeArguments : QrExecute(size)

QrSpec == MemInit /\ [][QrNext]_vars

(***************************************************************************)
(* SessSpec: AgentManager over several sessions in one process.  Agents    *)
(* and their memories are objects with an address; _agents maps a session  *)
(* id to the address of its Agent, the cache directory maps a path to the  *)
(* content of the file there.                                              *)
(***************************************************************************)
MaxSessOps == 6
Sessions == {"s1", "s2"}
Models == {"m1", "m2"}
SessUserTexts == {<<"h", "i">>}
SessReply == <<"o", "k">>

\* d[k] = v
Put(d, k, v) == [x \in DOMAIN d \cup {k} |-> IF x = k THEN v ELSE d[x]]

\* del d[k]
Drop(d, k) == [x \in DOMAIN d \ {k} |-> d[x]]

\* one history file for every session
history_path_Shared(session_id) == <<".agent_cache", "history.json">>

\* cls._cache_dir / f"{session_id}_history.json"
history_path(session_id) == <<".agent_cache", session_id, "_history.json">>

\* ConversationMemory(max_turns=memory_turns) holding the given messages
NewMemory(ms) == [messages |-> ms, tool_results |-> <<>>, router_decisions |-> <<>>,
                  max_turns |-> memory_turns]

\* Agent(model=model): self.model, self.llm = LLMProvider(model),
\* self.memory at address mem, self.router = QueryRouter(model) with its own
\* LLMProvider(model); asked is the model of the last get_agent call for the
\* agent, running says whether a turn of it is in flight
NewAgent(model, mem) ==
    [model |-> model, llm |-> model, router |-> model, memory |-> mem,
     asked |-> model, running |-> FALSE]

\* the model update of get_agent, were it to reach the router's provider too
UpdateModel_RouterToo(agent, model) ==
    IF agent.model # model
    THEN [agent EXCEPT !.model = model, !.llm = model, !.router = model, !.asked = model]
    ELSE [agent EXCEPT !.asked = model]

\* get_agent, lines 22-24: agent.model = model; agent.llm.model = model
UpdateModel(agent, model) ==
    IF agent.model # model
    THEN [agent EXCEPT !.model = model, !.llm = model, !.asked = model]
    ELSE [agent EXCEPT !.asked = model]

\* a model call of the agent: which provider made it, with which model, and
\* the model get_agent was last asked for
ModelCall(agent, kind) ==
    [kind |-> kind, model |-> IF kind = "router" THEN agent.router ELSE agent.llm,
     asked |-> agent.asked]

SessStep(op, session_id, ret, made) ==
    [op |-> op, session |-> session_id, returned |-> ret, calls |-> made,
     pre |-> [agent_of |-> agent_of, agent_objs |-> agent_objs,
              memory_objs |-> memory_objs, cache_dir |-> cache_dir]]

SessFrame ==
    /\ nops < MaxSessOps
    /\ nops' = nops + 1
    /\ UNCHANGED <<memVars, appended, lastOp, regVars, turnVars, turnHist, fresh, pureVars,
                   parsed, regState, mgrState, toolState>>

\* AgentManager.get_agent(session_id, model)
SessGetAgent(session_id, model) ==
    /\ SessFrame
    /\ IF session_id \in DOMAIN agent_of
       THEN /\ agent_objs' = [agent_objs EXCEPT ![agent_of[session_id]] =
                                 UpdateModel(@, model)]
            /\ sess_last' = SessStep("get_agent", session_id, agent_of[session_id], <<>>)
            /\ UNCHANGED <<agent_of, memory_objs>>
       ELSE /\ memory_objs' =
                 Append(memory_objs,
                        NewMemory(IF history_path(session_id) \in DOMAIN cache_dir
                                  THEN Replay(json_load(cache_dir[history_path(session_id)]),
                                              1, <<>>, memory_turns)
                                  ELSE <<>>))
            /\ agent_objs' = Append(agent_objs, NewAgent(model, Len(memory_objs) + 1))
            /\ agent_of' = Put(agent_of, session_id, Len(agent_objs) + 1)
            /\ sess_last' = SessStep("get_agent", session_id, Len(agent_objs) + 1, <<>>)
    /\ UNCHANGED cache_dir

\* Agent.run on the session's agent, up to the router's model call:
\* add_user_message, then should_use_tools
SessRunRoute(session_id, message) ==
    /\ session_id \in DOMAIN agent_of
    /\ ~agent_objs[agent_of[session_id]].running
    /\ SessFrame
    /\ LET a == agent_of[session_id]
           m == agent_objs[a].memory
       IN  /\ memory_objs' = [memory_objs EXCEPT ![m].messages =
                                 add_user_message(@, memory_objs[m].max_turns, message)]
           /\ agent_objs' = [agent_objs EXCEPT ![a].running = TRUE]
           /\ sess_last' = SessStep("run_route", session_id, 0,
                                    <<ModelCall(agent_objs[a], "router")>>)
    /\ UNCHANGED <<agent_of, cache_dir>>

\* Agent.run after the router's decision: _process_conversation (one model
\* call) or _process_with_tools (dispatch, a recorded tool result, follow-up),
\* then add_assistant_message
SessRunAnswer(session_id, use_tool) ==
    /\ session_id \in DOMAIN agent_of
    /\ agent_objs[agent_of[session_id]].running
    /\ SessFrame
    /\ LET a == agent_of[session_id]
           m == agent_objs[a].memory
           k == memory_objs[m].max_turns
       IN  /\ memory_objs' =
                 [memory_objs EXCEPT
                    ![m].messages = add_assistant_message(@, k, SessReply),
                    ![m].tool_results =
                        IF use_tool
                        THEN add_tool_result(@, k, "TimestampTool", <<"r">>, clock)
                        ELSE @]
           /\ agent_objs' = [agent_objs EXCEPT ![a].running = FALSE]
           /\ sess_last' = SessStep("run_answer", session_id, 0,
                                    IF use_tool
                                    THEN <<ModelCall(agent_objs[a], "dispatch"),
                                           ModelCall(agent_objs[a], "followup")>>
                                    ELSE <<ModelCall(agent_objs[a], "conversation")>>)
    /\ UNCHANGED <<agent_of, cache_dir>>

\* AgentManager.save_agent(session_id)
SessSaveAgent(session_id) ==
    /\ SessFrame
    /\ sess_last' = SessStep("save_agent", session_id, 0, <<>>)
    /\ IF session_id \in DOMAIN agent_of
       THEN LET m == agent_objs[agent_of[session_id]].memory IN
            /\ memory_objs' = [memory_objs EXCEPT ![m].messages = unique_messages(@)]
            /\ cache_dir' = Put(cache_dir, history_path(session_id),
                                json_dump(memory_objs'[m].messages))
       ELSE UNCHANGED <<memory_objs, cache_dir>>
    /\ UNCHANGED <<agent_of, agent_objs>>

\* AgentManager.clear_agent(session_id)
SessClearAgent(session_id) ==
    /\ SessFrame
    /\ sess_last' = SessStep("clear_agent", session_id, 0, <<>>)
    /\ IF session_id \in DOMAIN agent_of
       THEN LET m == agent_objs[agent_of[session_id]].memory
                c == clear(memory_objs[m].messages, memory_objs[m].tool_results,
                           memory_objs[m].router_decisions)
            IN  /\ memory_objs' = [memory_objs EXCEPT
                                      ![m].messages = c.messages,
                                      ![m].tool_results = c.tool_results,
                                      ![m].router_decisions = c.router_decisions]
                /\ cache_dir' = Drop(cache_dir, history_path(session_id))
       ELSE UNCHANGED <<memory_objs, cache_dir>>
    /\ UNCHANGED <<agent_of, agent_objs>>

SessNext ==
    \/ \E session_id \in Sessions, model \in Models : SessGetAgent(session_id, model)
    \/ \E session_id \in Sessions, message \in SessUserTexts :
          SessRunRoute(session_id, message)
    \/ \E session_id \in Sessions, use_tool \in BOOLEAN : SessRunAnswer(session_id, use_tool)
    \/ \E session_id \in Sessions : SessSaveAgent(session_id)
    \/ \E session_id \in Sessions : SessClearAgent(session_id)

SessSpec == MgrInit /\ [][SessNext]_vars

(***************************************************************************)
(* Properties of ConversationMemory (checked under MemSpec).               *)
(***************************************************************************)
IsSuffix(s, t) ==
    /\ Len(s) <= Len(t)
    /\ s = SubSeq(t, Len(t) - Len(s) + 1, Len(t))

Min(a, b) == IF a <= b THEN a ELSE b

\* C4: for any max_turns = k, each of the three logs holds at most 2*k entries
\* in every state reachable through the four add calls.
C4_LogsCapped ==
    /\ Len(messages) <= 2 * max_turns
    /\ Len(tool_results) <= 2 * max_turns
    /\ Len(router_decisions) <= 2 * max_turns

\* The cap of C4 for a construction-time max_turns of at least 1.
C4_LogsCappedPositiveK ==
    max_turns >= 1 => C4_LogsCapped

\* C5: once more than 2*k entries were really appended to messages, messages has
\* length 2*k and is the 2*k most recently appended entries in append order.
C5_FifoEviction ==
    Len(appended) > 2 * max_turns =>
        /\ Len(messages) = 2 * max_turns
        /\ \A i \in 1..(2 * max_turns) :
              messages[i] = appended[Len(appended) - 2 * max_turns + i]

\* The eviction order of C5 for a construction-time max_turns of at least 1.
C5_FifoEvictionPositiveK ==
    max_turns >= 1 => C5_FifoEviction

\* C6: after any sequence of add_user_message and add_assistant_message calls
\* from an empty memory, no two adjacent entries of messages have the same role
\* and the same content.
C6_NoAdjacentDuplicates ==
    \A i \in 1..(Len(messages) - 1) :
        ~ (/\ messages[i].role = messages[i + 1].role
           /\ messages[i].content = messages[i + 1].content)

\* C7: add_user_message(t) leaves messages unchanged when the most recent entry
\* is the user entry t; otherwise {user, t} becomes the new last entry, nothing
\* else is added and the log is trimmed; and calling it again changes nothing.
C7_AddUserMessage ==
    lastOp.op = "add_user_message" =>
        LET t   == lastOp.text
            pre == lastOp.pre
            e   == [role |-> "user", content |-> t]
            dup == pre # <<>> /\ pre[Len(pre)] = e
        IN  /\ dup => messages = pre
            /\ ~dup => /\ messages # <<>>
                       /\ messages[Len(messages)] = e
                       /\ IsSuffix(messages, Append(pre, e))
                       /\ max_turns >= 1 =>
                              Len(messages) = Min(Len(pre) + 1, 2 * max_turns)
            /\ add_user_message(messages, max_turns, t) = messages

C7_Witness ==
    /\ lastOp.op = "add_user_message"
    /\ lastOp.pre # <<>>
    /\ lastOp.pre[Len(lastOp.pre)] = [role |-> "user", content |-> lastOp.text]
    /\ messages = lastOp.pre

InTurn == pc \in {"router_call", "conv_call", "dispatch_call", "exec_call",
                  "followup_call"}
Front(s) == SubSeq(s, 1, Len(s) - 1)
Rank(phase) ==
    CASE phase = "ROUTING" -> 1
      [] phase = "CONVERSING" -> 2
      [] phase = "TOOL_DISPATCH" -> 2
      [] phase = "TOOL_FOLLOWUP" -> 3
      [] OTHER -> 4

\* C1: a turn that starts with a memory whose last entry is not the same user
\* text, in which the router selects a registered tool, that tool executes and
\* the follow-up call returns, leaves exactly one new user entry, exactly one
\* new assistant entry (the follow-up reply) and exactly one new tool result.
C1_ToolTurnAddsOneOfEach ==
    ( /\ pc = "done"
      /\ ~ (/\ turnPre.messages # <<>>
            /\ turnPre.messages[Len(turnPre.messages)] =
                   [role |-> "user", content |-> user_input])
      /\ decision[1] /\ Suggested \in registry
      /\ execs = <<Suggested>>
      /\ calls = <<"router", "dispatch", "followup">> )
    =>
    ( /\ Len(messages) >= 2
      /\ messages[Len(messages) - 1] = [role |-> "user", content |-> user_input]
      /\ messages[Len(messages)] = [role |-> "assistant", content |-> returned.value]
      /\ IsSuffix(Front(Front(messages)), turnPre.messages)
      /\ \E out \in ToolOutputs(Suggested), ts \in 0..MaxClock :
            tool_results = add_tool_result(turnPre.tool_results, max_turns,
                                           Suggested, out, ts) )

\* C2: every turn follows ROUTING -> (CONVERSING | TOOL_DISPATCH -> TOOL_FOLLOWUP)
\* -> DONE: the user input is in memory before the router is called, only one of
\* the two paths is entered, a tool runs only after the router call and the
\* dispatch call, the follow-up call is made only after a tool result was
\* obtained, and no state is entered twice.
C2_TurnOrder ==
    phases # <<>> =>
        /\ phases[1] = "ROUTING"
        /\ \A i, j \in 1..Len(phases) : i < j => Rank(phases[i]) < Rank(phases[j])
        /\ messages # <<>>
        /\ InTurn => messages[Len(messages)] = [role |-> "user", content |-> user_input]
        /\ ~ (\E i, j \in 1..Len(phases) :
                 phases[i] = "CONVERSING" /\ phases[j] = "TOOL_DISPATCH")
        /\ pc = "done" <=> phases[Len(phases)] = "DONE"
        /\ execs # <<>> =>
              /\ Len(calls) >= 2 /\ calls[1] = "router" /\ calls[2] = "dispatch"
              /\ \E i \in 1..Len(phases) : phases[i] = "TOOL_DISPATCH"
        /\ (\E i \in 1..Len(calls) : calls[i] = "followup") =>
              /\ execs # <<>>
              /\ TruthyText(tool_result)
              /\ calls = <<"router", "dispatch", "followup">>
        /\ (\E i \in 1..Len(phases) : phases[i] = "TOOL_FOLLOWUP") <=>
           (\E i \in 1..Len(calls) : calls[i] = "followup")

C2_Witness ==
    /\ pc = "done"
    /\ phases = <<"ROUTING", "TOOL_DISPATCH", "TOOL_FOLLOWUP", "DONE">>
    /\ turns = 2

\* C3: when the parsed action holds both a tool and parameters and names a tool
\* X that is not registered, the turn returns exactly "Error: Tool 'X' not
\* found", that string is the assistant entry appended to memory, no tool is
\* executed (not a suggested one either), no tool result is recorded and no
\* model call follows the dispatch call.
C3_ToolNotFound ==
    ( /\ tool_response # NoneT
      /\ parse_json(tool_response).shape = "dict"
      /\ {"tool", "parameters"} \subseteq parse_json(tool_response).keys
      /\ parse_json(tool_response).tool \notin registry )
    =>
    LET X == parse_json(tool_response).tool
        msg == <<"Error: Tool '", X, "' not found">>
    IN  /\ pc = "done"
        /\ returned = [kind |-> "text", value |-> msg]
        /\ Len(messages) >= 2
        /\ messages[Len(messages)] = [role |-> "assistant", content |-> msg]
        /\ messages[Len(messages) - 1] = [role |-> "user", content |-> user_input]
        /\ execs = <<>>
        /\ tool_results = turnPre.tool_results
        /\ calls = <<"router", "dispatch">>

C3_Witness ==
    /\ pc = "done"
    /\ tool_response = <<"dispatch", "action", GhostTool, "valid">>
    /\ decision = <<TRUE, "TimestampTool">>
    /\ "TimestampTool" \in registry
    /\ returned.value = <<"Error: Tool '", GhostTool, "' not found">>

\* C9: with zero tools registered should_use_tools returns (false, absent) and
\* makes no model call, so the turn takes the conversational path.
C9_NoToolsNoRouting ==
    (registry = {} /\ phases # <<>>) =>
        /\ pc # "router_call"
        /\ \A i \in 1..Len(calls) : calls[i] = "conversation"
        /\ decision = <<FALSE, None>>
        /\ Len(phases) >= 2 /\ phases[2] = "CONVERSING"
        /\ execs = <<>>

C9_Witness ==
    /\ registry = {}
    /\ pc = "done"
    /\ calls = <<"conversation">>
    /\ phases = <<"ROUTING", "CONVERSING", "DONE">>

\* C10: when the reply to the routing prompt cannot be decoded as a decision
\* object, should_use_tools returns (false, absent) without raising and the turn
\* goes on along the conversational path; the decode failure does not reach the
\* caller of Agent.run.
C10_RouterDecodeFailure ==
    response.form \in {"prose", "array"} =>
        /\ decision = <<FALSE, None>>
        /\ calls = <<"router", "conversation">>
        /\ Len(phases) >= 2 /\ phases[2] = "CONVERSING"
        /\ pc \in {"conv_call", "done", "raised"}
        /\ pc = "done" => returned.kind = "text"

C10_Witness ==
    /\ response.form = "prose"
    /\ pc = "done"
    /\ returned.kind = "text"
    /\ phases = <<"ROUTING", "CONVERSING", "DONE">>

\* C11: when a model call of a turn (router, dispatch, conversation, follow-up)
\* or a tool execute call fails, the failure leaves Agent.run as an exception,
\* the call is not retried, no later step of the turn runs, and what was
\* appended to memory before the failure (the user entry, a recorded tool
\* result) stays as it was.
C11_FailurePropagates ==
    /\ [][(ModelFails \/ ToolRaises) =>
             /\ pc' = "raised"
             /\ returned'.kind = "raised"
             /\ messages' = messages
             /\ tool_results' = tool_results
             /\ router_decisions' = router_decisions
             /\ calls' = calls /\ execs' = execs /\ phases' = phases]_vars
    /\ [][pc = "raised" =>
             /\ turns' = turns + 1
             /\ Len(calls') = 1
             /\ execs' = <<>>]_vars
    /\ [](pc = "raised" =>
             /\ messages # <<>>
             /\ messages[Len(messages)] = [role |-> "user", content |-> user_input]
             /\ \A i \in 1..Len(phases) : phases[i] # "DONE")

C11_Witness ==
    /\ pc = "raised"
    /\ calls = <<"router", "dispatch", "followup">>
    /\ Len(tool_results) = Len(turnPre.tool_results) + 1
    /\ messages[Len(messages)] = [role |-> "user", content |-> user_input]

\* the dispatch reply was parsed, the parsed value has not both keys, and no
\* fallback execution was started
NoToolResult ==
    /\ tool_response # NoneT
    /\ ~({"tool", "parameters"} \subseteq parse_json(tool_response).keys)
    /\ execs = <<>>

RawReplyReturned ==
    /\ pc = "done"
    /\ returned = [kind |-> "text", value |-> tool_response]
    /\ messages[Len(messages)] = [role |-> "assistant", content |-> tool_response]
    /\ \A i \in 1..Len(calls) : calls[i] # "followup"

\* C12: on the tool path, when no tool result was obtained (the parsed action
\* lacks the tool or the parameters key, a parser error object included, and
\* no fallback execution gave a result), the turn does not fail: the raw
\* dispatch reply is returned and appended as the assistant entry, and no
\* follow-up model call is made.
C12_NoToolResultReturnsRaw == NoToolResult => RawReplyReturned

\* the same, for a dispatch reply from which the parser returns an object
C12_ObjectParsedReturnsRaw ==
    (NoToolResult /\ parse_json(tool_response).shape = "dict") => RawReplyReturned

\* part occurs in text as a run of consecutive pieces
Contains(text, part) ==
    \E i \in 1..(Len(text) - Len(part) + 1) :
        SubSeq(text, i, i + Len(part) - 1) = part

\* the parse/execute step ended without a tool result and the router had
\* suggested a registered tool
FallbackCase ==
    /\ tool_response # NoneT
    /\ parse_json(tool_response).shape = "dict"
    /\ ~({"tool", "parameters"} \subseteq parse_json(tool_response).keys)
    /\ TruthyName(Suggested)
    /\ get_tool(registry, Suggested) # None

\* the suggested tool is executed by the fallback and its result is used in
\* the follow-up call
SuggestedToolExecuted ==
    /\ execs = <<Suggested>>
    /\ pending = [tool |-> Suggested, via |-> "fallback"]
    /\ pc # "exec_call" =>
          /\ tool_result \in ToolOutputs(Suggested)
          /\ calls = <<"router", "dispatch", "followup">>
          /\ request.call = "followup"
          /\ request.sent[Len(request.sent)].role = "user"
          /\ Contains(request.sent[Len(request.sent)].content, tool_result)

\* C13, as stated: whenever the parse/execute step produced no tool result and
\* the router had suggested a registered tool, the Agent executes that tool
\* directly and uses the result in the follow-up call, whichever registered
\* tool was suggested.
C13_FallbackExecutesAnySuggestedTool == FallbackCase => SuggestedToolExecuted

\* C13, amended: in that case the Agent executes the suggested tool directly
\* and uses the result in the follow-up call when the tool is TimestampTool or
\* NewsTool; for any other registered tool it executes nothing and returns the
\* raw dispatch reply.
C13_FallbackExecutesKnownSuggestedTool ==
    FallbackCase =>
        IF Suggested \in {"TimestampTool", "NewsTool"}
        THEN SuggestedToolExecuted
        ELSE execs = <<>> /\ RawReplyReturned

C13_Witness ==
    /\ FallbackCase
    /\ Suggested = "NewsTool"
    /\ pc = "followup_call"
    /\ tool_result = <<"output of ", "NewsTool">>

\* the tool executed in this turn returned an error string
ToolReturnedErrorString ==
    tool_result # NoneT /\ tool_result = <<"Error: ", pending.tool, " failed">>

\* the returned text is recorded, sent in the follow-up call, and the
\* follow-up reply is appended and returned
HandledLikeSuccess ==
    /\ \E ts \in 0..MaxClock :
          tool_results = add_tool_result(turnPre.tool_results, max_turns,
                                         pending.tool, tool_result, ts)
    /\ calls = <<"router", "dispatch", "followup">>
    /\ request.call = "followup"
    /\ Contains(request.sent[Len(request.sent)].content, tool_result)
    /\ pc \in {"followup_call", "done", "raised"}
    /\ pc = "done" =>
          /\ returned.kind = "text"
          /\ returned.value \in Replies
          /\ messages[Len(messages)] = [role |-> "assistant", content |-> returned.value]

\* C14: when an executed tool returns an error string, the Agent handles it
\* like a success result: it records it with add_tool_result, makes the
\* follow-up model call with that text, appends and returns the follow-up
\* reply, and raises nothing.
C14_ErrorStringLikeSuccess == ToolReturnedErrorString => HandledLikeSuccess

\* the same, for a tool executed from the parsed action
C14_ParsedErrorStringLikeSuccess ==
    (ToolReturnedErrorString /\ pending.via = "parsed") => HandledLikeSuccess

\* C15: Agent.run never records a router decision: on every path of a turn
\* (tool, conversational, failing) router_decisions is what it was before.
C15_RunKeepsRouterDecisions ==
    /\ [][router_decisions' = router_decisions]_vars
    /\ [](router_decisions = turnPre.router_decisions)

C15_Witness ==
    /\ pc = "done"
    /\ decision = <<TRUE, "TimestampTool">>
    /\ calls = <<"router", "dispatch", "followup">>
    /\ router_decisions = turnPre.router_decisions

\* length of a log after one append under the cap 2 * max_turns (no cap for 0)
AppendedLen(pre) ==
    IF max_turns > 0 THEN Min(Len(pre) + 1, 2 * max_turns) ELSE Len(pre) + 1

\* C17: add_tool_result and add_router_decision always append one entry at
\* the tail, also when it equals the previous entry, trim only their own log
\* and leave the other two logs as they were; add_user_message and
\* add_assistant_message never change tool_results or router_decisions.
C17_AuxiliaryLogsAppendOnly ==
    /\ lastOp.op = "add_tool_result" =>
          /\ tool_results # <<>>
          /\ tool_results[Len(tool_results)].tool = lastOp.name
          /\ tool_results[Len(tool_results)].result = lastOp.text
          /\ Len(tool_results) = AppendedLen(lastOp.preT)
          /\ IsSuffix(tool_results,
                      Append(lastOp.preT, tool_results[Len(tool_results)]))
          /\ messages = lastOp.pre
          /\ router_decisions = lastOp.preR
    /\ lastOp.op = "add_router_decision" =>
          /\ router_decisions # <<>>
          /\ router_decisions[Len(router_decisions)].tool_name = lastOp.name
          /\ Len(router_decisions) = AppendedLen(lastOp.preR)
          /\ IsSuffix(router_decisions,
                      Append(lastOp.preR, router_decisions[Len(router_decisions)]))
          /\ messages = lastOp.pre
          /\ tool_results = lastOp.preT
    /\ lastOp.op \in {"add_user_message", "add_assistant_message"} =>
          /\ tool_results = lastOp.preT
          /\ router_decisions = lastOp.preR

C17_Witness ==
    /\ lastOp.op = "add_tool_result"
    /\ lastOp.preT # <<>>
    /\ lastOp.preT[Len(lastOp.preT)] = tool_results[Len(tool_results)]
    /\ Len(tool_results) = Len(lastOp.preT) + 1
    /\ messages # <<>>
    /\ router_decisions # <<>>

(***************************************************************************)
(* Properties of the getters (checked under GetSpec).                      *)
(***************************************************************************)
\* the last n entries of log, all of them when it has fewer
LastN(log, n) ==
    IF n >= Len(log) THEN log ELSE SubSeq(log, Len(log) - n + 1, Len(log))

GotIsLastLimit ==
    /\ got.op = "get_recent_tool_results" =>
          got.value = LastN(tool_results, got.limit)
    /\ got.op = "get_recent_router_decisions" =>
          got.value = LastN(router_decisions, got.limit)

\* C18: for any limit, get_recent_tool_results(limit) returns exactly the last
\* `limit` entries of tool_results in log order (all of them when there are
\* fewer), and get_recent_router_decisions(limit) does so for router_decisions.
C18_GetRecentReturnsLastLimit == GotIsLastLimit

\* the same, for a limit of at least 1
C18_GetRecentPositiveLimit == got.limit >= 1 => GotIsLastLimit

\* C19: after clear() the three logs are empty and max_turns is what the
\* memory was constructed with; the add operations that follow behave as on
\* a newly constructed memory with the same max_turns.
C19_ClearResets ==
    /\ lastOp.op = "clear" =>
          /\ messages = <<>>
          /\ tool_results = <<>>
          /\ router_decisions = <<>>
    /\ max_turns = fresh.max_turns
    /\ fresh.cleared =>
          /\ messages = fresh.messages
          /\ tool_results = fresh.tool_results
          /\ router_decisions = fresh.router_decisions

C19_Witness ==
    /\ fresh.cleared
    /\ lastOp.op = "add_tool_result"
    /\ messages # <<>>
    /\ Len(appended) > Len(messages)
    /\ tool_results = fresh.tool_results

(***************************************************************************)
(* Properties of LLMProvider.generate (checked under GenSpec).             *)
(***************************************************************************)
\* the messages of the last call are: the system message if sysGiven, the
\* history, the prompt as a user entry if promptGiven and it is not the content
\* of a trailing user entry of the history
SentAsClaimed(sysGiven, promptGiven) ==
    LET hist == IF gen.conversation_history = NoHistory
                THEN <<>> ELSE gen.conversation_history[1]
        nsys == IF sysGiven THEN 1 ELSE 0
        trailing == /\ Len(hist) > 0
                    /\ hist[Len(hist)].role = "user"
                    /\ hist[Len(hist)].content = gen.prompt
        np   == IF promptGiven /\ ~trailing THEN 1 ELSE 0
    IN  /\ Len(gen.sent) = nsys + Len(hist) + np
        /\ nsys = 1 => gen.sent[1] = [role |-> "system",
                                      content |-> gen.system_message]
        /\ \A i \in 1..Len(hist) : gen.sent[nsys + i] = hist[i]
        /\ np = 1 => gen.sent[Len(gen.sent)] = [role |-> "user",
                                                content |-> gen.prompt]

C16_HistoryIsACopy ==
    history_list # NoHistory => Deref(heap, messages_list) = internal_view

\* the same for what the caller does to the list itself: its length and the
\* identity of the internal entries are out of the caller's reach
C16_ListIsACopy ==
    [][(CallerAppend(Entry("user", <<"mine">>)) \/ \E i \in 1..MaxCopyOps : CallerRemove(i))
          => Deref(heap', messages_list') = Deref(heap, messages_list)]_vars

(***************************************************************************)
(* Properties of OutputParser.parse_json (checked under ParseSpec).        *)
(***************************************************************************)
\* the value {tool, parameters} of the action that was written out
ActionValue(tool, params) ==
    JDict(<< <<(<<"tool">>), JStr(tool)>>, <<(<<"parameters">>), JDict(params)>> >>)

\* an object with a tool name and a parameters mapping
IsActionObject(v) ==
    /\ v.kind = "dict"
    /\ {<<"tool">>, <<"parameters">>} \subseteq DOMAIN v.members
    /\ v.members[<<"tool">>].kind = "str"
    /\ v.members[<<"parameters">>].kind = "dict"

\* an error object with an error text and the text as it was given
IsErrorObject(v, text) ==
    /\ v.kind = "dict"
    /\ DOMAIN v.members = {<<"error">>, <<"original_text">>}
    /\ v.members[<<"error">>].kind = "str"
    /\ v.members[<<"original_text">>] = JStr(text)

C22_ParseResultShape ==
    parsed.called =>
        /\ ~parsed.out.raised
        /\ \/ IsActionObject(parsed.out.value)
           \/ IsErrorObject(parsed.out.value, parsed.text)

\* C23: for every well-formed action {tool, parameters} written inside a
\* fenced code block, with any prose before and after, parse_json returns
\* the same tool and the same parameters mapping.
C23_FencedRoundTrip ==
    (parsed.called /\ parsed.wrap = "fenced") =>
        parsed.out = Returns(ActionValue(parsed.tool, parsed.params))

\* the same, for actions whose string parameters hold no colon
C23_FencedRoundTripNoColon ==
    (/\ parsed.called /\ parsed.wrap = "fenced"
     /\ \A i \in 1..Len(parsed.params) : parsed.params[i][2] # JStr(Url)) =>
        parsed.out = Returns(ActionValue(parsed.tool, parsed.params))

\* C24: an action written with unquoted keys and single-quoted strings parses
\* to the same result as its canonical double-quoted form.
C24_TolerantSameAsCanonical ==
    (parsed.called /\ parsed.style = "tolerant") =>
        parsed.out = parse_json_text(WriteAction(parsed.tool, parsed.params, "canonical"))

\* C25: for every text that holds no { and no "tool" pattern, parse_json
\* returns an error object whose original_text is the text.
C25_NoBraceNoToolIsError ==
    (/\ parsed.called
     /\ \A i \in 1..Len(parsed.text) : parsed.text[i] # "{"
     /\ \A i \in 1..Len(parsed.text) : ~QuotedNameAt(parsed.text, i, "tool")) =>
        /\ ~parsed.out.raised
        /\ IsErrorObject(parsed.out.value, parsed.text)

(***************************************************************************)
(* Properties of ToolRegistry (checked under RegSpec).                     *)
(***************************************************************************)
\* the name the i-th register call registered under: the name given, or the
\* implementation's own type name when none was given
NameOfCall(i) == IF registered[i][1] = None THEN registered[i][2] ELSE registered[i][1]

\* the register calls made under name
CallsUnder(name) == {i \in 1..Len(registered) : NameOfCall(i) = name}

\* the implementation most recently registered under name, None when never
MostRecent(name) ==
    IF CallsUnder(name) = {} THEN None
    ELSE registered[CHOOSE i \in CallsUnder(name) : \A j \in CallsUnder(name) : j <= i][2]

RegistryAsClaimed ==
    /\ (looked.op = "get_tool" /\ looked.at = Len(registered)) =>
          looked.out = <<MostRecent(looked.name)>>
    /\ (looked.op = "list_tools" /\ looked.at = Len(registered)) =>
          /\ \A i, j \in 1..Len(looked.out) : looked.out[i] = looked.out[j] => i = j
          /\ {looked.out[i] : i \in 1..Len(looked.out)} =
                {NameOfCall(i) : i \in 1..Len(registered)}
    /\ \A i \in 1..Len(registered) : \E k \in 1..Len(_tools) : _tools[k][1] = NameOfCall(i)

\* C26: after any sequence of register calls, get_tool(name) returns the
\* implementation most recently registered under that name (the
\* implementation's own type name when no name was given) and absent for a
\* name never registered; list_tools holds each registered name exactly once;
\* no registered name ever disappears.
C26_RegistryLastWins == RegistryAsClaimed

\* the same, as long as no register call was given the empty name
C26_RegistryLastWinsNonEmptyNames ==
    (\A i \in 1..Len(registered) : registered[i][1] # "") => RegistryAsClaimed

C26_OverwriteSeen ==
    /\ Len(registered) >= 2
    /\ looked.op = "get_tool" /\ looked.name = "NewsTool" /\ looked.at = Len(registered)
    /\ registered[1] = <<None, "NewsTool">>
    /\ registered[2] = <<"NewsTool", "MockNews">>
    /\ looked.out = <<"MockNews">>

(***************************************************************************)
(* Tool execution inside an agent turn (checked under Spec).               *)
(***************************************************************************)
\* C27: a tool's execute, as the Agent invokes it with the parsed parameter
\* mapping, never raises for missing or invalid parameters: it returns an
\* error string, so a bad parameter set never aborts the turn.
C27_BadParametersNeverAbort ==
    [][(pc = "exec_call" /\ pending.via = "parsed") => pc' # "raised"]_vars

(***************************************************************************)
(* Properties of AgentManager (checked under MgrSpec).                     *)
(***************************************************************************)
\* the persisted array holds exactly the {role, content} pairs of ms, in order
PersistedIs(file, ms) ==
    /\ file # <<>>
    /\ Len(file[1]) = Len(ms)
    /\ \A i \in 1..Len(ms) :
          file[1][i] = <<(<<"role", ms[i].role>>), <<"content", ms[i].content>>>>

\* a session resumed: get_agent with a persisted history and no agent in memory
Resumed == mgr_last.op = "get_agent" /\ ~mgr_last.loaded /\ mgr_last.file # <<>>

\* C28: on session resume only the messages log is rebuilt, from the
\* persisted ordered {role, content} pairs; the tool_results and
\* router_decisions logs of the resumed agent are empty.
C28_ResumeRebuildsMessagesOnly ==
    Resumed =>
        /\ PersistedIs(mgr_last.file, messages)
        /\ tool_results = <<>>
        /\ router_decisions = <<>>
        /\ history_file = mgr_last.file
        /\ SessionId \in _agents

C28_Witness ==
    /\ Resumed
    /\ Len(messages) >= 2
    /\ messages[1].role = "user" /\ messages[2].role = "assistant"
    /\ PersistedIs(mgr_last.file, messages)

\* (role, first 100 characters of content)
RolePrefix(msg) ==
    <<msg.role, [i \in 1..(IF Len(msg.content) < 100 THEN Len(msg.content) ELSE 100) |->
                    msg.content[i]]>>

\* the places of ms holding the first occurrence of their (role, prefix)
FirstPlaces(ms) ==
    {i \in 1..Len(ms) : \A j \in 1..(i - 1) : RolePrefix(ms[j]) # RolePrefix(ms[i])}

\* ms cut down to its first occurrences, order kept
FirstOccurrences(ms) ==
    [n \in 1..Cardinality(FirstPlaces(ms)) |->
        ms[CHOOSE i \in FirstPlaces(ms) :
              Cardinality({j \in FirstPlaces(ms) : j <= i}) = n]]

Saved == mgr_last.op = "save_agent" /\ mgr_last.loaded

\* C29: after save_agent(s) the persisted sequence for s and the agent's
\* in-memory messages are equal and hold at most one entry per (role, first
\* 100 characters of content): the first occurrence of each is kept, order is
\* preserved, and tool_results and router_decisions are unchanged.
C29_SaveDeduplicates ==
    Saved =>
        /\ PersistedIs(history_file, messages)
        /\ \A i, j \in 1..Len(messages) :
              RolePrefix(messages[i]) = RolePrefix(messages[j]) => i = j
        /\ messages = FirstOccurrences(mgr_last.pre.messages)
        /\ tool_results = mgr_last.pre.tool_results
        /\ router_decisions = mgr_last.pre.router_decisions

C29_Witness ==
    /\ Saved
    /\ Len(messages) < Len(mgr_last.pre.messages)
    /\ tool_results # <<>>
    /\ router_decisions # <<>>
    /\ \E i, j \in 1..Len(mgr_last.pre.messages) :
          /\ i < j
          /\ mgr_last.pre.messages[i] # mgr_last.pre.messages[j]
          /\ RolePrefix(mgr_last.pre.messages[i]) = RolePrefix(mgr_last.pre.messages[j])

\* the session had state: an agent in memory, a persisted history, or both
HadState == mgr_last.loaded \/ mgr_last.file # <<>>

SessionEmpty ==
    /\ messages = <<>>
    /\ tool_results = <<>>
    /\ router_decisions = <<>>
    /\ history_file = <<>>

\* C30: after clear_agent(s), for any session s that has state (an agent in
\* memory, a persisted history, or both), the session's memory is empty and
\* no persisted history exists for s, so the next get_agent(s) starts from an
\* empty conversation history.
C30_ClearLeavesNothing ==
    /\ (mgr_last.op = "clear_agent" /\ HadState) => SessionEmpty
    /\ (mgr_last.op = "get_agent" /\ mgr_last.prev = "clear_agent") => messages = <<>>

\* the same, for a session whose agent is in memory when clear_agent is called
C30_ClearLoadedSession ==
    (mgr_last.op = "clear_agent" /\ mgr_last.loaded) => SessionEmpty

(***************************************************************************)
(* The pipeline of one turn (checked under Spec).                          *)
(***************************************************************************)
\* the positions at which an external call of the turn is outstanding
AwaitingCall == {"router_call", "conv_call", "dispatch_call", "followup_call", "exec_call"}

\* external calls (model calls and tool executions) issued so far in this turn
Issued == Len(calls) + Len(execs)

\* C31: within one turn there is no parallel fan-out: at most one external
\* call (a model call or a tool execute call) is outstanding at any moment,
\* and each next call is issued only after the previous one has returned.
C31_NoFanOut ==
    [][turns' = turns =>
          /\ Len(calls') + Len(execs') <= Issued + 1
          /\ Len(calls') + Len(execs') = Issued + 1 =>
                (pc \in AwaitingCall /\ pc' \in AwaitingCall)
          /\ Len(calls') + Len(execs') = Issued => pc' \notin AwaitingCall]_vars

C31_Witness ==
    /\ pc = "followup_call"
    /\ calls = <<"router", "dispatch", "followup">>
    /\ Len(execs) = 1

(***************************************************************************)
(* Properties of QRCodeTool.execute (checked under QrSpec).                *)
(***************************************************************************)
\* the characters of text are decimal digits, at least one
AllDigits(text) == text # <<>> /\ \A i \in 1..Len(text) : text[i] \in {"0", "3", "5"}

\* the number a digit string stands for
NumberOf(text) ==
    LET d(c) == IF c = "0" THEN 0 ELSE IF c = "3" THEN 3 ELSE 5
        v[i \in 0..Len(text)] == IF i = 0 THEN 0 ELSE 10 * v[i - 1] + d(text[i])
    IN  v[Len(text)]

\* the size is an integer, or a numeric string, within [100, 500]
GivenInRange(size) ==
    \/ size.kind = "int" /\ size.n \in 100..500
    \/ size.kind = "str" /\ AllDigits(size.text) /\ NumberOf(size.text) \in 100..500

GivenNumber(size) == IF size.kind = "int" THEN size.n ELSE NumberOf(size.text)

SizeAsClaimed ==
    /\ qr_call.out.kind = "ok"
    /\ qr_call.out.size = IF GivenInRange(qr_call.size)
                          THEN GivenNumber(qr_call.size) ELSE 200
    /\ qr_call.out.size \in 100..500

\* C32: QRCodeTool.execute normalizes the size: an integer or numeric string
\* within [100, 500] is used as given, any other value (below 100, above
\* 500, non-numeric string, absent) becomes 200; the size reported in the
\* result is always within [100, 500].
C32_SizeNormalized == qr_call.called => SizeAsClaimed

\* the same, for every size that is no number with a fraction and not infinite
C32_SizeNormalizedNoFloat ==
    (qr_call.called /\ qr_call.size.kind \notin {"float", "inf"}) => SizeAsClaimed

\* a size reported in the result is within [100, 500]
C32_ReportedSizeInRange ==
    (qr_call.called /\ qr_call.out.kind = "ok") => qr_call.out.size \in 100..500

\* C33: for every turn of Agent.run that returns normally, on every path
\* (conversational, tool with follow-up, tool without result, tool not
\* found), the returned text is the content of the last entry of messages at
\* the end of the turn, and that entry has role assistant.
C33_ReturnedIsLastAssistantEntry ==
    pc = "done" =>
        /\ returned.kind = "text"
        /\ messages # <<>>
        /\ messages[Len(messages)].role = "assistant"
        /\ messages[Len(messages)].content = returned.value

C33_Witness ==
    /\ pc = "done"
    /\ calls = <<"router", "dispatch">>
    /\ execs = <<>>
    /\ returned.value = NotFoundMsg(GhostTool)
    /\ messages[Len(messages)] = Entry("assistant", NotFoundMsg(GhostTool))

\* a step in which an outstanding tool execute call returns
ExecuteReturns == pc = "exec_call" /\ pc' # "raised"

\* the step records the returned text of the executed tool with add_tool_result
RecordsResult ==
    \E ts \in 0..MaxClock :
        tool_results' = add_tool_result(tool_results, max_turns, pending.tool,
                                        tool_result', ts)

\* C34: in every turn a tool-result entry is appended to memory if and only
\* if a tool's execute was called and returned: every execution (of the
\* parsed action or of the suggested-tool fallback) is recorded with
\* add_tool_result.
C34_EveryExecutionRecorded ==
    [][IF ExecuteReturns THEN RecordsResult ELSE tool_results' = tool_results]_vars

\* the same, with the fallback's executions left unrecorded
C34_ParsedExecutionRecorded ==
    [][IF ExecuteReturns /\ pending.via = "parsed"
       THEN RecordsResult ELSE tool_results' = tool_results]_vars

SavedRestartedResumed ==
    /\ mgr_last.op = "get_agent"
    /\ mgr_last.prev = "restart"
    /\ mgr_last.prev2 = "save_agent"

\* C36: if save_agent(s) is followed by a process restart and get_agent(s),
\* the resumed agent's messages equal, entry for entry and in order, the
\* sequence that save_agent persisted.
C36_PersistenceRoundTrip ==
    SavedRestartedResumed =>
        /\ Len(messages) = Len(mgr_last.saved)
        /\ \A i \in 1..Len(messages) : messages[i] = mgr_last.saved[i]
        /\ PersistedIs(history_file, mgr_last.saved)

C36_Witness ==
    /\ SavedRestartedResumed
    /\ Len(messages) = 2
    /\ messages = mgr_last.saved
    /\ messages[1].role = "user" /\ messages[2].role = "assistant"
    /\ Len(mgr_last.pre.messages) = 0

\* the agent of the last step's session was built with one model and
\* get_agent has since been asked for another
ModelSwitched ==
    /\ sess_last.session \in DOMAIN sess_last.pre.agent_of
    /\ LET agent == sess_last.pre.agent_objs[sess_last.pre.agent_of[sess_last.session]]
       IN  agent.asked # agent.router

\* C37: after get_agent(s, model=m2) on a session whose agent used m1, every
\* model call of the following turns, the router's call included, is made with
\* the model m2 that get_agent was last asked for.
C37_CallsUseRequestedModel ==
    \A i \in 1..Len(sess_last.calls) : sess_last.calls[i].model = sess_last.calls[i].asked

\* C37, the router's call left aside: the model calls of Agent itself
\* (conversation, dispatch, follow-up) use the model last asked for.
C37_AgentCallsUseRequestedModel ==
    \A i \in 1..Len(sess_last.calls) :
        sess_last.calls[i].kind # "router" =>
            sess_last.calls[i].model = sess_last.calls[i].asked

C37_AgentCallsWitness ==
    /\ sess_last.op = "run_answer"
    /\ ModelSwitched
    /\ Len(sess_last.calls) = 2
    /\ sess_last.calls[1].model = "m2"

\* the three logs of the memory of session t's agent in a manager state
LogsOf(st, t) ==
    LET mem == st.memory_objs[st.agent_objs[st.agent_of[t]].memory]
    IN  <<mem.messages, mem.tool_results, mem.router_decisions>>

\* the persisted history of session t in a cache directory: <<>> when absent
PersistedOf(dir, t) ==
    IF history_path(t) \in DOMAIN dir THEN <<dir[history_path(t)]>> ELSE <<>>

SessNow ==
    [agent_of |-> agent_of, agent_objs |-> agent_objs, memory_objs |-> memory_objs,
     cache_dir |-> cache_dir]

\* C38: while the process lives get_agent(s) returns the same Agent on every
\* call for s, distinct sessions have distinct Agents with distinct memories,
\* and a turn, save_agent or clear_agent on s changes neither the memory logs
\* nor the persisted history of any other session.
C38_SessionIsolation ==
    LET pre == sess_last.pre
        s == sess_last.session
    IN  /\ \A t \in DOMAIN pre.agent_of :
              t \in DOMAIN agent_of /\ agent_of[t] = pre.agent_of[t]
        /\ sess_last.op = "get_agent" => sess_last.returned = agent_of[s]
        /\ \A t, u \in DOMAIN agent_of :
              t # u => /\ agent_of[t] # agent_of[u]
                       /\ agent_objs[agent_of[t]].memory # agent_objs[agent_of[u]].memory
        /\ sess_last.op \in {"run_route", "run_answer", "save_agent", "clear_agent"} =>
              \A t \in Sessions \ {s} :
                  /\ t \in DOMAIN pre.agent_of => LogsOf(SessNow, t) = LogsOf(pre, t)
                  /\ PersistedOf(cache_dir, t) = PersistedOf(pre.cache_dir, t)

C38_Witness ==
    /\ sess_last.op = "save_agent"
    /\ sess_last.session = "s2"
    /\ DOMAIN agent_of = {"s1", "s2"}
    /\ Len(LogsOf(SessNow, "s1")[1]) = 1
    /\ Len(LogsOf(SessNow, "s2")[1]) = 2
    /\ PersistedOf(cache_dir, "s1") = <<>>
    /\ PersistedOf(cache_dir, "s2") # <<>>

TurnOver == pc \in {"done", "raised"}

\* C39: if every model call and every tool execute call eventually returns or
\* fails, every turn of Agent.run eventually ends, returning text or raising,
\* after at most three model calls (router, dispatch, follow-up).
C39_TurnsTerminate ==
    /\ [](/\ Len(calls) <= 3
          /\ Len(calls) = 3 => calls = <<"router", "dispatch", "followup">>
          /\ TurnOver => returned.kind \in {"text", "raised"})
    /\ (pc \in AwaitingCall) ~> TurnOver

C39_Witness ==
    /\ pc = "done"
    /\ returned.kind = "text"
    /\ calls = <<"router", "dispatch", "followup">>
    /\ execs = <<"TimestampTool">>
    /\ pending.via = "fallback"

\* no two adjacent entries have the same role
Alternates(ms) == \A i \in 1..(Len(ms) - 1) : ms[i].role # ms[i + 1].role

\* the log as a sequence of turns that all returned leaves it: empty, or
\* alternating with an assistant entry last
SettledLog(ms) == ms = <<>> \/ (Alternates(ms) /\ ms[Len(ms)].role = "assistant")

====
